---- MODULE Spec2Model ----
(***************************************************************************)
(* FunctionService of cloudbase-manager-node (src/src/function/index.ts):  *)
(* one invocation of an inbound operation, run against a transport whose   *)
(* replies (success, or a platform error with a code) are chosen by the    *)
(* environment.  Every transport request is two steps: the request is      *)
(* issued (it is appended to calls and becomes inflight) and its reply is  *)
(* received at the await that issued it.  A second specification runs the  *)
(* static CloudBase.init of the facade class (src/unnamed/part_000), a     *)
(* third one two createLayer invocations that share the working directory, *)
(* and a fourth one createFunction under the fairness it terminates with.  *)
(***************************************************************************)
EXTENDS Integers, Sequences, FiniteSets, TLC

VARIABLES op, func, arg, st, calls, inflight, cloudBase, made, initLog, tasks, files

vars == <<op, func, arg, st, calls, inflight, cloudBase, made, initLog, tasks, files>>

\* ---------------------------------------------------------------- values

Undef == "undefined"
None == "none"

\* requestId of an error that carries none (requestId: undefined)
NoId == 0

\* the platform's "a function of this name exists" code (index.ts:299)
Conflict == "ResourceInUse.FunctionName"
Codes == {Conflict, "InternalError"}

\* const validRuntime = ['Nodejs8.9', 'Php7', 'Java8']
validRuntime == {"Nodejs8.9", "Php7", "Java8"}

\* the retry helpers retry while count < 3
MaxRetry == 3

\* /^[A-Za-z0-9+=/]{1,160}$/
MaxSecretLen == 160

\* SCF_STATUS.CREATING, SCF_STATUS.UPDATING
CREATING == "Creating"
UPDATING == "Updating"
Statuses == {CREATING, UPDATING, "Active", "CreateFailed"}

\* bound of the model: status polls of one waitFunctionActive call that may
\* still observe a transient status
MaxPolls == 2

\* JavaScript truthiness of a string-or-undefined value
Truthy(s) == s # Undef /\ s # ""

\* ---------------------------------------------------------------- errors

\* an error object: code, requestId, message.  The message is kept as its
\* parts: wrap/fn are the prefix a wrapper put before the original text.
NoError == [code |-> Undef, requestId |-> NoId, wrap |-> "noerror", fn |-> "", text |-> ""]

\* new CloudBaseError(message): no code, no requestId
CloudBaseError(text) ==
    [code |-> Undef, requestId |-> NoId, wrap |-> None, fn |-> "", text |-> text]

\* the error the transport raises for a failed request n
ApiError(c, n) ==
    [code |-> c, requestId |-> n, wrap |-> None, fn |-> "", text |-> "platform"]

\* e.message is a non-empty string
HasMessage(e) == e.text # ""

\* new CloudBaseError(`[${funcName}] 部署失败：\n${e.message}`, {code, requestId})
DeployError(fn, e) ==
    [code |-> e.code, requestId |-> e.requestId, wrap |-> "deploy", fn |-> fn, text |-> e.text]

\* new CloudBaseError(`[${funcName}] 函数代码更新失败： ${e.message}`, {code})
CodeUpdateError(fn, e) ==
    [code |-> e.code, requestId |-> NoId, wrap |-> "codeUpdate", fn |-> fn, text |-> e.text]

\* new CloudBaseError(`[${name}] 调用失败：\n${e.message}`): no code, no
\* requestId
InvokeError(fn, e) ==
    [code |-> Undef, requestId |-> NoId, wrap |-> "invoke", fn |-> fn, text |-> e.text]

\* new CloudBaseError(`[${functionName}] 获取函数代码下载链接失败：\n${e.message}`)
DownloadUrlError(fn, e) ==
    [code |-> Undef, requestId |-> NoId, wrap |-> "downloadUrl", fn |-> fn, text |-> e.text]

\* ---------------------------------------------------------------- results

Null == [isNull |-> TRUE, RequestId |-> NoId]
Response(n) == [isNull |-> FALSE, RequestId |-> n]

\* ---------------------------------------------------------------- inputs

\* codeSecret: undefined, or a string of len characters, all of them in
\* [A-Za-z0-9+=/] iff charsOk
NoSecret == [defined |-> FALSE, len |-> 0, charsOk |-> TRUE]
Secret(n, ok) == [defined |-> TRUE, len |-> n, charsOk |-> ok]
Secrets == {NoSecret, Secret(0, TRUE), Secret(MaxSecretLen, TRUE),
            Secret(MaxSecretLen + 1, TRUE), Secret(3, FALSE)}

SecretTruthy(s) == s.defined /\ s.len > 0
SecretMatches(s) == s.charsOk /\ s.len >= 1 /\ s.len <= MaxSecretLen

Runtimes == {Undef, "", "Nodejs8.9", "Php7", "Java8", "Python3.6"}

\* func.triggers: absent or empty, timer triggers only, or holding a
\* trigger of another type
TriggerLists == {"empty", "timer", "other"}

\* faulty variant: the runtime is not checked
validCreateParamsNoRuntime(f, codeSecret) ==
    IF SecretTruthy(codeSecret) /\ ~SecretMatches(codeSecret)
    THEN CloudBaseError("badCodeSecret")
    ELSE NoError

\* validCreateParams(func, codeSecret): the error it throws, or NoError
validCreateParams(f, codeSecret) ==
    IF SecretTruthy(codeSecret) /\ ~SecretMatches(codeSecret)
    THEN CloudBaseError("badCodeSecret")
    ELSE IF Truthy(f.runtime) /\ f.runtime \notin validRuntime
    THEN CloudBaseError("badRuntime")
    ELSE NoError

\* installDependency as createFunction and updateFunctionCode compute it
InstallDependencyOf(f) ==
    IF f.installDependency # Undef
    THEN (IF f.installDependency = "true" THEN "TRUE" ELSE "FALSE")
    ELSE (IF f.runtime = "Nodejs8.9" THEN "TRUE" ELSE "FALSE")

\* the ignore list the packer is given (func.ignore is left out): with
\* installDependency 'TRUE' node_modules is not packaged
IgnoreOf(f) ==
    IF InstallDependencyOf(f) = "TRUE" THEN {"node_modules/**/*", "node_modules"} ELSE {}

\* packer.build(type): the base64 archive, or nothing when no source is found
PackerResults == {"", "ZIP"}

\* ---------------------------------------------------------------- request parameters

\* a JavaScript value of a parameter map, by its type
Str(s) == [str |-> s]
Num(n) == [num |-> n]
Bool(b) == [bool |-> b]
Arr(a) == [arr |-> a]
Obj(m) == [obj |-> m]
JsNull == [null |-> TRUE]
Undefined == [undefined |-> TRUE]

\* {}: an object literal without keys
NoParams == [k \in {} |-> Undefined]

\* m[k] = v
Put(m, k, v) == [y \in DOMAIN m \cup {k} |-> IF y = k THEN v ELSE m[y]]

\* a string-typed option of the caller that may be left out
StrOrUndefined(s) == IF s = Undef THEN Undefined ELSE Str(s)

\* envConfig.Functions[0].Namespace
namespace == Str("ns")

\* func.envVariables: absent, or an object whose keys, in order, are the
\* first components of pairs
NoEnv == [defined |-> FALSE, pairs |-> <<>>]
Env(pairs) == [defined |-> TRUE, pairs |-> pairs]
EnvVariables == {NoEnv, Env(<<>>), Env(<<<<"A", "1">>>>), Env(<<<<"A", "1">>, <<"B", "2">>>>)}

\* func.vpc: absent, or {subnetId, vpcId}
NoVpc == [defined |-> FALSE, subnetId |-> "", vpcId |-> ""]
Vpc(s, v) == [defined |-> TRUE, subnetId |-> s, vpcId |-> v]
Vpcs == {NoVpc, Vpc("subnet-1", "vpc-1"), Vpc("", "vpc-1")}

\* Object.keys(func.envVariables || {}).map(key => ({Key: key, Value: ...}))
envVariablesOf(f) ==
    [i \in DOMAIN f.envVariables.pairs |->
        [Key |-> f.envVariables.pairs[i][1], Value |-> f.envVariables.pairs[i][2]]]

\* typeof func.l5 === 'undefined' ? null : func.l5 ? 'TRUE' : 'FALSE'
l5EnableOf(f) ==
    IF f.l5 = Undef THEN JsNull ELSE IF f.l5 = "true" THEN Str("TRUE") ELSE Str("FALSE")

\* {SubnetId: (func.vpc && func.vpc.subnetId) || '', VpcId: ... || ''}
VpcConfigOf(f) == [SubnetId |-> Str(f.vpc.subnetId), VpcId |-> Str(f.vpc.vpcId)]

\* envVariables.length && (params.Environment = {Variables: envVariables})
WithEnvironment(p, f) ==
    IF Len(envVariablesOf(f)) # 0
    THEN Put(p, "Environment", Obj([Variables |-> Arr(envVariablesOf(f))]))
    ELSE p

\* func.layers && func.layers.length && (params.Layers = func.layers)
WithLayers(p, f) ==
    IF f.layers = "some" THEN Put(p, "Layers", Arr(f.layers)) ELSE p

\* if (codeSecret) params.CodeSecret = codeSecret
WithCodeSecret(p, codeSecret) ==
    IF SecretTruthy(codeSecret) THEN Put(p, "CodeSecret", Str(codeSecret)) ELSE p

\* the params of CreateFunction, as createFunction builds them
CreateFunctionParams(f, base64, codeSecret) ==
    LET p0 == [FunctionName |-> Str(f.name), Namespace |-> namespace,
               Code |-> Obj([ZipFile |-> Str(base64)]),
               MemorySize |-> Num(256), Role |-> Str("TCB_QcsRole"),
               Stamp |-> Str("MINI_QCBASE"), L5Enable |-> l5EnableOf(f)]
        p1 == WithEnvironment(p0, f)
        p2 == Put(p1, "Handler", Str(IF Truthy(f.handler) THEN f.handler ELSE "index.main"))
        p3 == Put(p2, "Timeout", Num(IF f.timeout # 0 THEN f.timeout ELSE 20))
        p4 == Put(p3, "Runtime", Str(IF Truthy(f.runtime) THEN f.runtime ELSE "Nodejs8.9"))
        p5 == Put(p4, "VpcConfig", Obj(VpcConfigOf(f)))
        p6 == Put(p5, "InstallDependency", Str(InstallDependencyOf(f)))
        p7 == WithCodeSecret(p6, codeSecret)
        p8 == Put(p7, "EipConfig",
                  Obj([EipFixed |-> Str(IF f.vpc.subnetId # "" /\ f.vpc.vpcId # ""
                                        THEN "TRUE" ELSE "FALSE")]))
    IN  WithLayers(p8, f)

\* the params of UpdateFunctionConfiguration, as updateFunctionConfig
\* builds them
UpdateFunctionConfigurationParams(f) ==
    LET p0 == [FunctionName |-> Str(f.name), Namespace |-> namespace,
               L5Enable |-> l5EnableOf(f)]
        p1 == WithEnvironment(p0, f)
        p2 == IF f.timeout # 0 THEN Put(p1, "Timeout", Num(f.timeout)) ELSE p1
        p3 == IF Truthy(f.runtime) THEN Put(p2, "Runtime", Str(f.runtime)) ELSE p2
        p4 == Put(p3, "VpcConfig", Obj(VpcConfigOf(f)))
        p5 == IF f.runtime = "Nodejs8.9" THEN Put(p4, "InstallDependency", Str("TRUE")) ELSE p4
        p6 == IF f.installDependency # Undef
              THEN Put(p5, "InstallDependency",
                       Str(IF f.installDependency = "true" THEN "TRUE" ELSE "FALSE"))
              ELSE p5
    IN  WithLayers(p6, f)

\* the params of UpdateFunctionCode, as updateFunctionCode builds them
UpdateFunctionCodeParams(f, base64, codeSecret) ==
    WithCodeSecret(
        [FunctionName |-> Str(f.name), Namespace |-> namespace, ZipFile |-> Str(base64),
         Handler |-> Str(IF Truthy(f.handler) THEN f.handler ELSE "index.main"),
         InstallDependency |-> Str(InstallDependencyOf(f))],
        codeSecret)

\* the params of GetFunction, as getFunctionDetail builds them
GetFunctionParams(name, codeSecret) ==
    WithCodeSecret([FunctionName |-> Str(name), Namespace |-> namespace,
                    ShowCode |-> Str("TRUE")], codeSecret)

\* the params of BatchCreateTrigger for a list of timer triggers
BatchCreateTriggerParams(name) ==
    [FunctionName |-> Str(name), Namespace |-> namespace,
     Triggers |-> Str("[{TriggerName,Type,TriggerDesc}]"), Count |-> Num(1)]

\* the params of GetFunctionLogs: offset and limit have defaults, the
\* other options are passed as they were given
GetFunctionLogsParams(o) ==
    [Namespace |-> namespace, FunctionName |-> Str(o.name),
     Offset |-> Num(0), Limit |-> Num(10),
     Order |-> StrOrUndefined(o.order), OrderBy |-> StrOrUndefined(o.orderBy),
     StartTime |-> StrOrUndefined(o.startTime), EndTime |-> StrOrUndefined(o.endTime),
     FunctionRequestId |-> StrOrUndefined(o.requestId)]

\* the params of ListLayers
ListLayersParams(o) ==
    LET p == [Limit |-> Num(20), Offset |-> Num(0), SearchKey |-> StrOrUndefined(o.searchKey)]
    IN  IF Truthy(o.runtime) THEN Put(p, "CompatibleRuntime", Str(o.runtime)) ELSE p

\* the params of ListLayerVersions
ListLayerVersionsParams(o) ==
    LET p == [LayerName |-> Str(o.name)]
    IN  IF o.runtimes # {} THEN Put(p, "CompatibleRuntime", Arr(o.runtimes)) ELSE p

\* the params of PublishLayerVersion
PublishLayerVersionParams(o, base64) ==
    [LayerName |-> Str(o.name), CompatibleRuntimes |-> Arr(o.runtimes),
     Content |-> Obj([ZipFile |-> Str(base64)]),
     Description |-> Str(""), LicenseInfo |-> Str("")]

\* the params of UpdateFunctionIncrementalCode: AddFiles is the archive
\* of the files to add, when there are any
UpdateFunctionIncrementalCodeParams(f, addFiles, base64) ==
    LET p == [FunctionName |-> Str(f.name), Namespace |-> namespace]
    IN  IF addFiles THEN Put(p, "AddFiles", Str(base64)) ELSE p

\* the params of requests that name a function, or a version of a layer
FunctionNameParams(name) == [FunctionName |-> Str(name), Namespace |-> namespace]
LayerVersionParams(o) == [LayerName |-> Str(o.name), LayerVersion |-> Num(o.version)]

\* the params of ListFunctions and of DeleteTrigger
ListFunctionsParams == [Namespace |-> namespace, Limit |-> Num(20), Offset |-> Num(0)]
DeleteTriggerParams(name, triggerName) ==
    [FunctionName |-> Str(name), Namespace |-> namespace,
     TriggerName |-> Str(triggerName), Type |-> Str("timer")]

\* the params of Invoke: ClientContext only for given params
InvokeParams(name, params) ==
    LET p == [FunctionName |-> Str(name), Namespace |-> namespace, LogType |-> Str("Tail")]
    IN  IF params # Undef THEN Put(p, "ClientContext", Str(params)) ELSE p

\* the params of CopyFunction
CopyFunctionParams(name, newFunctionName, targetEnvId, force) ==
    [FunctionName |-> Str(name), NewFunctionName |-> Str(newFunctionName),
     Namespace |-> namespace,
     TargetNamespace |-> IF Truthy(targetEnvId) THEN Str(targetEnvId) ELSE namespace,
     Override |-> Bool(force)]

\* ---------------------------------------------------------------- state

\* what an invocation returned: the response of one request, the
\* composite {triggerRes, configRes, codeRes}, or the data object of
\* getFunctionDetail
NoValue ==
    [kind |-> None, res |-> Null, triggerRes |-> Null, configRes |-> Null, codeRes |-> Null,
     data |-> NoParams]
DetailValue(data) == [NoValue EXCEPT !.kind = "detail", !.data = data]
ResponseValue(r) == [NoValue EXCEPT !.kind = "response", !.res = r]
CompositeValue(t, c, u) ==
    [kind |-> "composite", res |-> Null, triggerRes |-> t, configRes |-> c, codeRes |-> u]

\* the locals of the running invocation (pc: the await it is at), its
\* outcome, and the record of what its helpers did: params is the parameter
\* map of the last request, failed the ids of the requests that failed,
\* reconcileAt the request whose error started the update sequence
InitSt(entry) ==
    [pc |-> entry, path |-> "direct",
     base64 |-> "", installDependency |-> Undef, packCount |-> 0, ignore |-> {},
     count |-> 0, pollCount |-> 0,
     res |-> Null, triggerRes |-> Null, configRes |-> Null,
     outType |-> None, value |-> NoValue, error |-> NoError, cause |-> NoError,
     createOk |-> FALSE, createErr |-> NoError,
     trigCalls |-> 0, trigAttempts |-> 0, trigLast |-> NoError, trigThrown |-> NoError,
     trigDone |-> FALSE, trigDoneAt |-> 0, configErr |-> NoError,
     codeCalls |-> 0, codeLast |-> NoError, pollFailed |-> FALSE,
     temp |-> FALSE,
     params |-> NoParams, status |-> None, data |-> NoParams,
     transient |-> 0, waits |-> 0,
     failed |-> {}, reconcileAt |-> 0]

\* the invocation throws e; cause is the error e was made from
Throw(s, e, cause) ==
    [s EXCEPT !.pc = "done", !.outType = "throw", !.error = e, !.cause = cause]

\* the invocation returns v
Return(s, v) == [s EXCEPT !.pc = "done", !.outType = "return", !.value = v]

Done == st.pc = "done"
Returned == Done /\ st.outType = "return"
Thrown == Done /\ st.outType = "throw"

\* ------------------------------------------------- retryUpdateFunctionCode

\* faulty variant: the helper calls itself with count, not count + 1, so
\* it never gives up
retryUpdateFunctionCodeCatchForever(s, e) == [s EXCEPT !.pc = "updateFunctionCode"]

\* faulty variant: count <= 3
retryUpdateFunctionCodeCatchOneMore(s, e) ==
    IF s.count <= MaxRetry
    THEN [s EXCEPT !.count = @ + 1, !.pc = "updateFunctionCode"]
    ELSE Throw(s, e, s.cause)

\* catch (e) of retryUpdateFunctionCode: sleep(500) and call again while
\* count < 3, else rethrow
retryUpdateFunctionCodeCatch(s, e) ==
    IF s.count < MaxRetry
    THEN [s EXCEPT !.count = @ + 1, !.pc = "updateFunctionCode"]
    ELSE Throw(s, e, s.cause)

\* updateFunctionCode throws e to its caller
updateFunctionCodeThrow(s, e, cause) ==
    LET t == [s EXCEPT !.codeLast = e, !.cause = cause] IN
    IF op = "createFunction"
    THEN retryUpdateFunctionCodeCatch(t, e)
    ELSE Throw(t, e, cause)

\* catch (e) of updateFunctionCode: every error of its try block is wrapped
updateFunctionCodeCatch(s, e) ==
    updateFunctionCodeThrow(s, CodeUpdateError(func.name, e), e)

\* faulty variant: createFunction returns codeRes alone
updateFunctionCodeReturnCodeRes(s) == Return(s, ResponseValue(s.res))

\* updateFunctionCode returns res; in createFunction that is codeRes and
\* the composite is returned
updateFunctionCodeReturn(s) ==
    IF op = "createFunction"
    THEN Return(s, CompositeValue(s.triggerRes, s.configRes, s.res))
    ELSE Return(s, ResponseValue(s.res))

\* ------------------------------------------------- createFunction, catch

\* faulty variant: only the conflict error is wrapped when force is false
createFunctionCatchConflictOnly(s, e) ==
    IF e.code = Conflict /\ arg.force
    THEN [s EXCEPT !.path = "reconcile", !.pc = "createFunctionTriggers",
                   !.reconcileAt = e.requestId]
    ELSE IF e.code = Conflict /\ HasMessage(e) /\ ~arg.force
    THEN Throw(s, DeployError(func.name, e), e)
    ELSE Throw(s, e, e)

\* faulty variant: another failure sends CreateFunction again, like the
\* retry helpers do
createFunctionCatchRetry(s, e) ==
    IF e.code = Conflict /\ arg.force
    THEN [s EXCEPT !.path = "reconcile", !.pc = "createFunctionTriggers",
                   !.reconcileAt = e.requestId]
    ELSE IF s.count < MaxRetry
    THEN [s EXCEPT !.count = @ + 1, !.pc = "CreateFunction"]
    ELSE IF HasMessage(e) /\ ~arg.force
    THEN Throw(s, DeployError(func.name, e), e)
    ELSE Throw(s, e, e)

\* faulty variant: the deployment error is built without {code, requestId}
createFunctionCatchNoIds(s, e) ==
    IF e.code = Conflict /\ arg.force
    THEN [s EXCEPT !.path = "reconcile", !.pc = "createFunctionTriggers",
                   !.reconcileAt = e.requestId]
    ELSE IF HasMessage(e) /\ ~arg.force
    THEN Throw(s, CloudBaseError(e.text), e)
    ELSE Throw(s, e, e)

\* catch (e) of createFunction, for an error of CreateFunction, of
\* retryCreateTrigger or of waitFunctionActive
createFunctionCatch(s, e) ==
    IF e.code = Conflict /\ arg.force
    THEN [s EXCEPT !.path = "reconcile", !.pc = "createFunctionTriggers",
                   !.reconcileAt = e.requestId]
    ELSE IF HasMessage(e) /\ ~arg.force
    THEN Throw(s, DeployError(func.name, e), e)
    ELSE Throw(s, e, e)

\* ---------------------------------------------------- waitFunctionActive

\* faulty variant: createFunction returns the reply it received last
waitFunctionActiveReturnLast(s) ==
    IF s.path = "create"
    THEN Return(s, ResponseValue(Response(Len(calls))))
    ELSE updateFunctionCodeReturn(s)

\* the loop of waitFunctionActive ends
waitFunctionActiveReturn(s) ==
    IF s.path = "create"
    THEN Return(s, ResponseValue(s.res))
    ELSE updateFunctionCodeReturn(s)

\* faulty variant: the loop goes on for CREATING only
waitFunctionActiveLoopCreatingOnly(s) ==
    IF s.status = CREATING
    THEN [s EXCEPT !.pc = "waitFunctionActive", !.transient = @ + 1,
                   !.status = None, !.data = NoParams]
    ELSE waitFunctionActiveReturn(s)

\* status = Status } while (status === SCF_STATUS.CREATING ||
\* status === SCF_STATUS.UPDATING); the next iteration starts with nothing
\* of this one but the count of iterations
waitFunctionActiveLoop(s) ==
    IF s.status = CREATING \/ s.status = UPDATING
    THEN [s EXCEPT !.pc = "waitFunctionActive", !.transient = @ + 1,
                   !.status = None, !.data = NoParams]
    ELSE waitFunctionActiveReturn(s)

\* getFunctionDetail throws e inside waitFunctionActive
waitFunctionActiveThrow(s, e) ==
    LET t == [s EXCEPT !.pollFailed = TRUE] IN
    IF s.path = "create"
    THEN createFunctionCatch(t, e)
    ELSE updateFunctionCodeCatch(t, e)

\* if (InstallDependency && func.isWaitInstall === true) await
\* waitFunctionActive(funcName); return res
MayWait(s) ==
    IF Truthy(s.installDependency) /\ func.isWaitInstall = TRUE
    THEN [s EXCEPT !.pc = "waitFunctionActive", !.pollCount = 0, !.transient = 0,
                   !.waits = @ + 1]
    ELSE waitFunctionActiveReturn(s)

\* ---------------------------------------------------- getFunctionDetail

\* getFunctionDetail returns data: to its caller, or to the loop of
\* waitFunctionActive, which reads Status
getFunctionDetailReturn(s) ==
    IF op = "getFunctionDetail"
    THEN Return(s, DetailValue(s.data))
    ELSE waitFunctionActiveLoop(s)

\* the GetFunction request of getFunctionDetail throws e
getFunctionDetailThrow(s, e) ==
    IF op = "getFunctionDetail"
    THEN Throw(s, e, e)
    ELSE waitFunctionActiveThrow(s, e)

\* catch (e) { data.VPC = {vpc: '', subnet: ''} } around getVpcs and
\* getSubnets, and return data
getFunctionDetailCatch(s, e) ==
    getFunctionDetailReturn(
        [s EXCEPT !.data = Put(@, "VPC", Obj([vpc |-> Str(""), subnet |-> Str("")]))])

\* ---------------------------------------------------- retryCreateTrigger

\* faulty variant: count <= 3
retryCreateTriggerCatchOneMore(s, e) ==
    IF s.count <= MaxRetry
    THEN [s EXCEPT !.count = @ + 1, !.pc = "createFunctionTriggers"]
    ELSE createFunctionCatch([s EXCEPT !.trigThrown = e], e)

\* catch (e) of retryCreateTrigger: sleep(500) and call again while
\* count < 3, else rethrow into the try block of createFunction
retryCreateTriggerCatch(s, e) ==
    IF s.count < MaxRetry
    THEN [s EXCEPT !.count = @ + 1, !.pc = "createFunctionTriggers"]
    ELSE createFunctionCatch([s EXCEPT !.trigThrown = e], e)

\* faulty variant: on the conflict path the error of createFunctionTriggers
\* is dropped and the update sequence goes on
createFunctionTriggersThrowGoOn(s, e) ==
    LET t == [s EXCEPT !.trigLast = e] IN
    IF s.path = "create"
    THEN retryCreateTriggerCatch(t, e)
    ELSE IF s.path = "reconcile"
    THEN [t EXCEPT !.pc = "updateFunctionConfig"]
    ELSE Throw(t, e, e)

\* createFunctionTriggers throws e to its caller: retryCreateTrigger on the
\* create path, the catch block of createFunction on the conflict path
createFunctionTriggersThrow(s, e) ==
    LET t == [s EXCEPT !.trigLast = e] IN
    IF s.path = "create"
    THEN retryCreateTriggerCatch(t, e)
    ELSE Throw(t, e, e)

\* createFunctionTriggers returns r (null for an empty list)
createFunctionTriggersReturn(s, r) ==
    IF s.path = "create"
    THEN MayWait([s EXCEPT !.trigDone = TRUE, !.trigDoneAt = s.trigAttempts])
    ELSE IF s.path = "reconcile"
    THEN [s EXCEPT !.triggerRes = r, !.pc = "updateFunctionConfig"]
    ELSE Return(s, ResponseValue(r))

\* ---------------------------------------------------------------- transport

\* scfService.request(action, params) is called
Issue(action) == calls' = Append(calls, action) /\ inflight' = action

\* the reply of the request in flight arrives; its id is its place in calls
Replied(action) == inflight = action /\ inflight' = None /\ UNCHANGED calls
ReplyId == Len(calls)

NoTransport == UNCHANGED <<calls, inflight>>

\* the request whose reply is the error e has failed
Failed(s, e) == [s EXCEPT !.failed = @ \cup {e.requestId}]
Inputs == UNCHANGED <<op, func, arg, cloudBase, made, initLog, tasks, files>>

\* ---------------------------------------------------------------- createFunction

\* createFunction up to the first await: validCreateParams, installDependency
cfValidate ==
    /\ st.pc = "createFunction"
    /\ LET e == validCreateParams(func, arg.codeSecret) IN
         st' = IF e # NoError
               THEN Throw(st, e, e)
               ELSE [st EXCEPT !.pc = "package", !.path = "create",
                               !.installDependency = InstallDependencyOf(func)]
    /\ NoTransport /\ Inputs

\* faulty variant: what the packer built is not looked at
cfPackageNoCheck ==
    /\ st.pc = "package"
    /\ IF ~Truthy(arg.base64Code)
       THEN \E built \in PackerResults :
              st' = [st EXCEPT !.packCount = @ + 1, !.ignore = IgnoreOf(func),
                               !.base64 = built, !.pc = "CreateFunction"]
       ELSE st' = [st EXCEPT !.base64 = arg.base64Code, !.pc = "CreateFunction"]
    /\ NoTransport /\ Inputs

\* if (!base64Code) base64 = await packer.build(type), and it throws when
\* nothing was built; else base64 = base64Code
cfPackage ==
    /\ st.pc = "package"
    /\ IF ~Truthy(arg.base64Code)
       THEN \E built \in PackerResults :
              LET t == [st EXCEPT !.packCount = @ + 1, !.ignore = IgnoreOf(func)] IN
              st' = IF ~Truthy(built)
                    THEN Throw(t, CloudBaseError("noSource"), NoError)
                    ELSE [t EXCEPT !.base64 = built, !.pc = "CreateFunction"]
       ELSE st' = [st EXCEPT !.base64 = arg.base64Code, !.pc = "CreateFunction"]
    /\ NoTransport /\ Inputs

\* faulty variant: the request is not awaited, retryCreateTrigger starts
\* at once
cfCreateNoAwait ==
    /\ st.pc = "CreateFunction"
    /\ Issue("CreateFunction")
    /\ st' = [st EXCEPT !.pc = "createFunctionTriggers", !.createOk = TRUE, !.count = 0,
                        !.params = CreateFunctionParams(func, st.base64, arg.codeSecret)]
    /\ Inputs

\* await this.scfService.request('CreateFunction', params)
cfCreate ==
    /\ st.pc = "CreateFunction"
    /\ Issue("CreateFunction")
    /\ st' = [st EXCEPT !.pc = "CreateFunction_reply",
                        !.params = CreateFunctionParams(func, st.base64, arg.codeSecret)]
    /\ Inputs

\* the reply: res, and on to retryCreateTrigger(funcName, func.triggers)
cfCreateOk ==
    /\ st.pc = "CreateFunction_reply"
    /\ Replied("CreateFunction")
    /\ st' = [st EXCEPT !.res = Response(ReplyId), !.createOk = TRUE, !.count = 0,
                        !.pc = "createFunctionTriggers"]
    /\ Inputs

\* the request fails: catch (e)
cfCreateFail ==
    /\ st.pc = "CreateFunction_reply"
    /\ Replied("CreateFunction")
    /\ \E c \in Codes :
         LET e == ApiError(c, ReplyId) IN
         st' = createFunctionCatch(Failed([st EXCEPT !.createErr = e], e), e)
    /\ Inputs

\* ---------------------------------------------------------------- createFunctionTriggers

\* createFunctionTriggers(name, triggers): null for no triggers, a thrown
\* error for a trigger that is not a timer, else BatchCreateTrigger
createFunctionTriggers ==
    /\ st.pc = "createFunctionTriggers"
    /\ LET t == [st EXCEPT !.trigCalls = @ + 1,
                           !.trigAttempts = IF st.path = "create" THEN @ + 1 ELSE @]
       IN
       CASE func.triggers = "empty" ->
              /\ st' = createFunctionTriggersReturn(t, Null)
              /\ NoTransport
         [] func.triggers = "other" ->
              /\ st' = createFunctionTriggersThrow(t, CloudBaseError("badTriggerType"))
              /\ NoTransport
         [] OTHER ->
              /\ st' = [t EXCEPT !.pc = "BatchCreateTrigger_reply",
                                 !.params = BatchCreateTriggerParams(func.name)]
              /\ Issue("BatchCreateTrigger")
    /\ Inputs

createTriggersOk ==
    /\ st.pc = "BatchCreateTrigger_reply"
    /\ Replied("BatchCreateTrigger")
    /\ st' = createFunctionTriggersReturn(st, Response(ReplyId))
    /\ Inputs

createTriggersFail ==
    /\ st.pc = "BatchCreateTrigger_reply"
    /\ Replied("BatchCreateTrigger")
    /\ \E c \in Codes :
         LET e == ApiError(c, ReplyId) IN
         st' = createFunctionTriggersThrow(Failed(st, e), e)
    /\ Inputs

\* ---------------------------------------------------------------- waitFunctionActive

\* do { const { Status } = await this.getFunctionDetail(funcName): the
\* GetFunction request of that call
waitPoll ==
    /\ st.pc = "waitFunctionActive"
    /\ Issue("GetFunction")
    /\ st' = [st EXCEPT !.pc = "GetFunction_reply", !.pollCount = @ + 1,
                        !.params = GetFunctionParams(func.name, NoSecret)]
    /\ Inputs

\* the function the platform holds has the VpcConfig createFunction sent;
\* for the other operations the caller's test double chooses it
RemoteVpc == IF op = "createFunction" THEN func.vpc ELSE arg.remoteVpc

\* the keys of the reply that getFunctionDetail copies into data
DataOf(status) ==
    LET d == [Status |-> Str(status), FunctionName |-> Str(func.name)]
    IN  IF RemoteVpc.defined
        THEN Put(d, "VpcConfig", Obj([VpcId |-> Str(RemoteVpc.vpcId),
                                      SubnetId |-> Str(RemoteVpc.subnetId)]))
        ELSE d

\* the reply of GetFunction: data, and if (VpcId && SubnetId) the lookups
getFunctionOk(s, status) ==
    LET t == [s EXCEPT !.status = status, !.data = DataOf(status)] IN
    IF RemoteVpc.vpcId # "" /\ RemoteVpc.subnetId # ""
    THEN [t EXCEPT !.pc = "getVpcs"]
    ELSE getFunctionDetailReturn(t)

\* the reply inside waitFunctionActive; await sleep(1000) and the loop test
\* follow when getFunctionDetail returns
waitPollOk ==
    /\ st.pc = "GetFunction_reply" /\ op # "getFunctionDetail"
    /\ Replied("GetFunction")
    /\ \E status \in Statuses :
         /\ status \in {CREATING, UPDATING} => st.pollCount <= MaxPolls
         /\ st' = getFunctionOk(st, status)
    /\ Inputs

waitPollFail ==
    /\ st.pc = "GetFunction_reply" /\ op # "getFunctionDetail"
    /\ Replied("GetFunction")
    /\ \E c \in Codes :
         LET e == ApiError(c, ReplyId) IN
         st' = getFunctionDetailThrow(Failed(st, e), e)
    /\ Inputs

\* ---------------------------------------------------------------- getFunctionDetail

\* getFunctionDetail(name, codeSecret) called by the user
getFunctionDetail ==
    /\ st.pc = "getFunctionDetail"
    /\ Issue("GetFunction")
    /\ st' = [st EXCEPT !.pc = "GetFunction_reply",
                        !.params = GetFunctionParams(arg.name, arg.codeSecret)]
    /\ Inputs

getFunctionDetailOk ==
    /\ st.pc = "GetFunction_reply" /\ op = "getFunctionDetail"
    /\ Replied("GetFunction")
    /\ \E status \in Statuses : st' = getFunctionOk(st, status)
    /\ Inputs

getFunctionDetailFail ==
    /\ st.pc = "GetFunction_reply" /\ op = "getFunctionDetail"
    /\ Replied("GetFunction")
    /\ \E c \in Codes :
         LET e == ApiError(c, ReplyId) IN
         st' = getFunctionDetailThrow(Failed(st, e), e)
    /\ Inputs

\* const vpcs = await this.getVpcs(): vpcService.request('DescribeVpcs')
getVpcs ==
    /\ st.pc = "getVpcs"
    /\ Issue("DescribeVpcs")
    /\ st' = [st EXCEPT !.pc = "DescribeVpcs_reply", !.params = NoParams]
    /\ Inputs

getVpcsOk ==
    /\ st.pc = "DescribeVpcs_reply"
    /\ Replied("DescribeVpcs")
    /\ st' = [st EXCEPT !.pc = "getSubnets"]
    /\ Inputs

getVpcsFail ==
    /\ st.pc = "DescribeVpcs_reply"
    /\ Replied("DescribeVpcs")
    /\ \E c \in Codes :
         LET e == ApiError(c, ReplyId) IN
         st' = getFunctionDetailCatch(Failed(st, e), e)
    /\ Inputs

\* const subnets = await this.getSubnets(VpcId)
getSubnets ==
    /\ st.pc = "getSubnets"
    /\ Issue("DescribeSubnets")
    /\ st' = [st EXCEPT !.pc = "DescribeSubnets_reply",
                        !.params = [Filters |-> Arr(<<[Name |-> Str("vpc-id"),
                                                       Values |-> Arr(<<RemoteVpc.vpcId>>)]>>)]]
    /\ Inputs

\* data.VpcConfig = {vpc, subnet}
getSubnetsOk ==
    /\ st.pc = "DescribeSubnets_reply"
    /\ Replied("DescribeSubnets")
    /\ st' = getFunctionDetailReturn(
                [st EXCEPT !.data = Put(@, "VpcConfig",
                                        Obj([vpc |-> Str(RemoteVpc.vpcId),
                                             subnet |-> Str(RemoteVpc.subnetId)]))])
    /\ Inputs

getSubnetsFail ==
    /\ st.pc = "DescribeSubnets_reply"
    /\ Replied("DescribeSubnets")
    /\ \E c \in Codes :
         LET e == ApiError(c, ReplyId) IN
         st' = getFunctionDetailCatch(Failed(st, e), e)
    /\ Inputs

\* ---------------------------------------------------------------- updateFunctionConfig

\* return this.scfService.request('UpdateFunctionConfiguration', params)
updateFunctionConfig ==
    /\ st.pc = "updateFunctionConfig"
    /\ Issue("UpdateFunctionConfiguration")
    /\ st' = [st EXCEPT !.pc = "UpdateFunctionConfiguration_reply",
                        !.params = UpdateFunctionConfigurationParams(func)]
    /\ Inputs

\* configRes, and on to retryUpdateFunctionCode; a direct call returns it
updateConfigOk ==
    /\ st.pc = "UpdateFunctionConfiguration_reply"
    /\ Replied("UpdateFunctionConfiguration")
    /\ st' = IF op = "createFunction"
             THEN [st EXCEPT !.configRes = Response(ReplyId), !.count = 0,
                             !.pc = "updateFunctionCode"]
             ELSE Return(st, ResponseValue(Response(ReplyId)))
    /\ Inputs

\* faulty variant: after the failure the triggers just created are deleted
\* again before the error is thrown
updateConfigFailUndo ==
    /\ st.pc = "UpdateFunctionConfiguration_reply"
    /\ Replied("UpdateFunctionConfiguration")
    /\ \E c \in Codes :
         LET e == ApiError(c, ReplyId) IN
         st' = IF op = "createFunction"
               THEN [Failed([st EXCEPT !.configErr = e], e) EXCEPT !.pc = "deleteFunctionTrigger"]
               ELSE Throw(Failed([st EXCEPT !.configErr = e], e), e, e)
    /\ Inputs

\* the error leaves updateFunctionConfig, and createFunction, as it is
updateConfigFail ==
    /\ st.pc = "UpdateFunctionConfiguration_reply"
    /\ Replied("UpdateFunctionConfiguration")
    /\ \E c \in Codes :
         LET e == ApiError(c, ReplyId) IN
         st' = Throw(Failed([st EXCEPT !.configErr = e], e), e, e)
    /\ Inputs

\* ---------------------------------------------------------------- updateFunctionCode

\* faulty variant: createFunction hands on the base64Code of its caller,
\* so a function that was packaged from its directory is packaged again
updateFunctionCodeRepackage ==
    /\ st.pc = "updateFunctionCode"
    /\ LET t == [st EXCEPT !.codeCalls = @ + 1,
                           !.installDependency = InstallDependencyOf(func)]
           base64Code == arg.base64Code
           e == validCreateParams(func, NoSecret)
       IN
       IF e # NoError
       THEN /\ st' = updateFunctionCodeThrow(t, e, e)
            /\ NoTransport
       ELSE IF ~Truthy(base64Code)
       THEN \E built \in PackerResults :
              LET u == [t EXCEPT !.packCount = @ + 1, !.ignore = IgnoreOf(func)] IN
              IF ~Truthy(built)
              THEN /\ st' = updateFunctionCodeThrow(u, CloudBaseError("noSource"), NoError)
                   /\ NoTransport
              ELSE /\ st' = [u EXCEPT !.base64 = built, !.pc = "UpdateFunctionCode_reply",
                                      !.params = UpdateFunctionCodeParams(func, built,
                                                                          arg.codeSecret)]
                   /\ Issue("UpdateFunctionCode")
       ELSE /\ st' = [t EXCEPT !.base64 = base64Code, !.pc = "UpdateFunctionCode_reply",
                               !.params = UpdateFunctionCodeParams(func, base64Code,
                                                                   arg.codeSecret)]
            /\ Issue("UpdateFunctionCode")
    /\ Inputs

\* updateFunctionCode up to its request: validCreateParams(func), the
\* package step, and inside the try block the UpdateFunctionCode request
updateFunctionCode ==
    /\ st.pc = "updateFunctionCode"
    /\ LET t == [st EXCEPT !.codeCalls = @ + 1,
                           !.installDependency = InstallDependencyOf(func)]
           base64Code == IF op = "createFunction" THEN st.base64 ELSE arg.base64Code
           e == validCreateParams(func, NoSecret)
       IN
       IF e # NoError
       THEN /\ st' = updateFunctionCodeThrow(t, e, e)
            /\ NoTransport
       ELSE IF ~Truthy(base64Code)
       THEN \E built \in PackerResults :
              LET u == [t EXCEPT !.packCount = @ + 1, !.ignore = IgnoreOf(func)] IN
              IF ~Truthy(built)
              THEN /\ st' = updateFunctionCodeThrow(u, CloudBaseError("noSource"), NoError)
                   /\ NoTransport
              ELSE /\ st' = [u EXCEPT !.base64 = built, !.pc = "UpdateFunctionCode_reply",
                                      !.params = UpdateFunctionCodeParams(func, built,
                                                                          arg.codeSecret)]
                   /\ Issue("UpdateFunctionCode")
       ELSE /\ st' = [t EXCEPT !.base64 = base64Code, !.pc = "UpdateFunctionCode_reply",
                               !.params = UpdateFunctionCodeParams(func, base64Code,
                                                                   arg.codeSecret)]
            /\ Issue("UpdateFunctionCode")
    /\ Inputs

updateCodeOk ==
    /\ st.pc = "UpdateFunctionCode_reply"
    /\ Replied("UpdateFunctionCode")
    /\ st' = MayWait([st EXCEPT !.res = Response(ReplyId)])
    /\ Inputs

updateCodeFail ==
    /\ st.pc = "UpdateFunctionCode_reply"
    /\ Replied("UpdateFunctionCode")
    /\ \E c \in Codes :
         LET e == ApiError(c, ReplyId) IN
         st' = updateFunctionCodeCatch(Failed(st, e), e)
    /\ Inputs

\* ---------------------------------------------------------------- the other operations

\* faulty variant: the error is caught and null is returned
requestCatchSwallow(s, e) == Return(s, ResponseValue(Null))

\* the error e of the one request of an operation: invokeFunction and
\* getFunctionDownloadUrl catch it and throw their own error, the others
\* have no catch
requestCatch(s, e) ==
    IF op = "invokeFunction"
    THEN Throw(s, InvokeError(arg.name, e), e)
    ELSE IF op = "getFunctionDownloadUrl"
    THEN Throw(s, DownloadUrlError(arg.name, e), e)
    ELSE Throw(s, e, e)

\* the reply of the one request of an operation that issues one request
\* is returned (invokeFunction, getFunctionDownloadUrl and listFunctions
\* return fields taken from it)
requestOk ==
    /\ st.pc = "request_reply"
    /\ inflight # None /\ inflight' = None /\ UNCHANGED calls
    /\ st' = Return(st, ResponseValue(Response(ReplyId)))
    /\ Inputs

requestFail ==
    /\ st.pc = "request_reply"
    /\ inflight # None /\ inflight' = None /\ UNCHANGED calls
    /\ \E c \in Codes :
         LET e == ApiError(c, ReplyId) IN
         st' = requestCatch(Failed(st, e), e)
    /\ Inputs

\* an operation whose body is one request with these params
Request(action, params) ==
    /\ Issue(action)
    /\ st' = [st EXCEPT !.pc = "request_reply", !.params = params]
    /\ Inputs

listFunctions == st.pc = "listFunctions" /\ Request("ListFunctions", ListFunctionsParams)

deleteFunction ==
    st.pc = "deleteFunction" /\ Request("DeleteFunction", FunctionNameParams(arg.name))

getFunctionLogs ==
    st.pc = "getFunctionLogs" /\ Request("GetFunctionLogs", GetFunctionLogsParams(arg))

invokeFunction ==
    st.pc = "invokeFunction" /\ Request("Invoke", InvokeParams(arg.name, arg.params))

\* copyFunction: if (!namespace || !name || !newFunctionName) throw
copyFunction ==
    /\ st.pc = "copyFunction"
    /\ IF ~Truthy(arg.name) \/ ~Truthy(arg.newFunctionName)
       THEN st' = Throw(st, CloudBaseError("missingParam"), NoError) /\ NoTransport /\ Inputs
       ELSE Request("CopyFunction",
                    CopyFunctionParams(arg.name, arg.newFunctionName, arg.targetEnvId,
                                       arg.force))

deleteFunctionTrigger ==
    /\ st.pc = "deleteFunctionTrigger"
    /\ Request("DeleteTrigger", DeleteTriggerParams(arg.name, arg.triggerName))

getFunctionDownloadUrl ==
    /\ st.pc = "getFunctionDownloadUrl"
    /\ Request("GetFunctionAddress",
               WithCodeSecret(FunctionNameParams(arg.name), arg.codeSecret))

deleteLayerVersion ==
    st.pc = "deleteLayerVersion" /\ Request("DeleteLayerVersion", LayerVersionParams(arg))

getLayerVersion ==
    st.pc = "getLayerVersion" /\ Request("GetLayerVersion", LayerVersionParams(arg))

\* updateFunctionIncrementalCode: validCreateParams(func), the package
\* step when addFiles is given, the request
updateFunctionIncrementalCode ==
    /\ st.pc = "updateFunctionIncrementalCode"
    /\ LET e == validCreateParams(func, NoSecret) IN
       IF e # NoError
       THEN st' = Throw(st, e, e) /\ NoTransport
       ELSE IF arg.addFiles
       THEN \E built \in PackerResults :
              LET u == [st EXCEPT !.packCount = @ + 1] IN
              IF ~Truthy(built)
              THEN st' = Throw(u, CloudBaseError("noSource"), NoError) /\ NoTransport
              ELSE /\ st' = [u EXCEPT !.base64 = built, !.pc = "request_reply",
                                     !.params = UpdateFunctionIncrementalCodeParams(
                                                    func, TRUE, built)]
                   /\ Issue("UpdateFunctionIncrementalCode")
       ELSE /\ st' = [st EXCEPT !.pc = "request_reply",
                               !.params = UpdateFunctionIncrementalCodeParams(func, FALSE, "")]
            /\ Issue("UpdateFunctionIncrementalCode")
    /\ Inputs

\* runtimes.some(item => validRuntime.indexOf(item) === -1)
SomeInvalid(runtimes) == \E item \in runtimes : item \notin validRuntime

\* createLayer up to its first await: the runtimes check, then the content
\* from base64Content, from a directory (through temp-<dirName>.zip) or
\* from a .zip file
createLayer ==
    /\ st.pc = "createLayer"
    /\ IF SomeInvalid(arg.runtimes)
       THEN st' = Throw(st, CloudBaseError("badRuntime"), NoError) /\ NoTransport
       ELSE CASE arg.content = "base64Content" ->
                   /\ st' = [st EXCEPT !.base64 = "BASE64", !.pc = "request_reply",
                                       !.params = PublishLayerVersionParams(arg, "BASE64")]
                   /\ Issue("PublishLayerVersion")
              [] arg.content = "directory" ->
                   \* if (checkPathExist(dest)) delSync(dest); await zipDir(...)
                   /\ st' = [st EXCEPT !.temp = FALSE, !.pc = "zipDir"]
                   /\ NoTransport
              [] arg.content = "zipFile" ->
                   /\ st' = [st EXCEPT !.pc = "readFile"]
                   /\ NoTransport
              [] OTHER ->
                   /\ st' = Throw(st, CloudBaseError("notZip"), NoError)
                   /\ NoTransport
    /\ Inputs

\* await zipDir({dirPath, outputPath: dest}): the archive is written, or
\* zipDir rejects and whatever it wrote so far stays
createLayerZipDir ==
    /\ st.pc = "zipDir"
    /\ \/ st' = [st EXCEPT !.temp = TRUE, !.pc = "readFile"]
       \/ \E written \in BOOLEAN :
            st' = Throw([st EXCEPT !.temp = written], CloudBaseError("zipDir"), NoError)
    /\ NoTransport /\ Inputs

\* await fs.promises.readFile(...), base64, delSync(dest) when what was
\* read is the temporary archive, and the PublishLayerVersion request
createLayerReadFile ==
    /\ st.pc = "readFile"
    /\ \/ /\ st' = [st EXCEPT !.base64 = "BASE64", !.pc = "request_reply",
                              !.temp = IF arg.content = "directory" THEN FALSE ELSE @,
                              !.params = PublishLayerVersionParams(arg, "BASE64")]
          /\ Issue("PublishLayerVersion")
       \/ /\ st' = Throw(st, CloudBaseError("readFile"), NoError)
          /\ NoTransport
    /\ Inputs

\* listLayerVersions: the check runs only when runtimes?.length
listLayerVersions ==
    /\ st.pc = "listLayerVersions"
    /\ IF arg.runtimes # {} /\ SomeInvalid(arg.runtimes)
       THEN st' = Throw(st, CloudBaseError("badRuntime"), NoError) /\ NoTransport
       ELSE /\ st' = [st EXCEPT !.pc = "request_reply",
                               !.params = ListLayerVersionsParams(arg)]
            /\ Issue("ListLayerVersions")
    /\ Inputs

\* listLayers: the check runs only when runtime is truthy
listLayers ==
    /\ st.pc = "listLayers"
    /\ IF Truthy(arg.runtime) /\ arg.runtime \notin validRuntime
       THEN st' = Throw(st, CloudBaseError("badRuntime"), NoError) /\ NoTransport
       ELSE /\ st' = [st EXCEPT !.pc = "request_reply", !.params = ListLayersParams(arg)]
            /\ Issue("ListLayers")
    /\ Inputs

\* ---------------------------------------------------------------- specification

\* timeout 0 stands for a timeout that is left out: both are falsy, and
\* Number(undefined) || 20 is Number(0) || 20
DefaultFunc ==
    [name |-> "big", runtime |-> Undef, installDependency |-> Undef,
     isWaitInstall |-> FALSE, triggers |-> "empty",
     envVariables |-> NoEnv, l5 |-> Undef, timeout |-> 0, handler |-> Undef,
     vpc |-> NoVpc, layers |-> "absent"]

DefaultArg ==
    [force |-> FALSE, base64Code |-> "BASE64", codeSecret |-> NoSecret,
     addFiles |-> FALSE, runtime |-> Undef, runtimes |-> {}, content |-> "base64Content",
     staleTemp |-> FALSE,
     name |-> "big", newFunctionName |-> "copy", targetEnvId |-> Undef,
     triggerName |-> "t1", version |-> 1, params |-> Undef, remoteVpc |-> NoVpc,
     order |-> Undef, orderBy |-> Undef, startTime |-> Undef, endTime |-> Undef,
     requestId |-> Undef, searchKey |-> Undef]

\* runtime and installDependency of the deployments that are run through
InstallProfiles ==
    {<<Undef, Undef>>, <<"Nodejs8.9", Undef>>, <<"Nodejs8.9", "false">>,
     <<"Java8", Undef>>, <<"Java8", "true">>}

RuntimeLists == {{}, {"Nodejs8.9"}, {"Python3.6"}, {"Java8", "Python3.6"}, {"Php7", "Java8"}}

\* the configuration fields of a function that end up in request params
ConfigFuncs ==
    {[DefaultFunc EXCEPT !.envVariables = e, !.l5 = l, !.timeout = n, !.vpc = v] :
        e \in EnvVariables, l \in {Undef, "true", "false"}, n \in {0, 5}, v \in Vpcs}
    \cup
    {[DefaultFunc EXCEPT !.runtime = r, !.installDependency = i, !.layers = y,
                         !.handler = h] :
        r \in {Undef, "Nodejs8.9", "Php7"}, i \in {Undef, "true", "false"},
        y \in {"absent", "empty", "some"}, h \in {Undef, "index.main2"}}

\* createFunction: every runtime with every codeSecret; every profile with
\* every force, isWaitInstall and triggers on a given base64Code; the
\* same for a function that is packaged from functionRootPath; every
\* configuration; a function in a VPC whose readiness is awaited; and
\* every runtime with every installDependency, packaged from functionRootPath
CreateInputs ==
    {<<f, DefaultArg>> : f \in ConfigFuncs}
    \cup
    {<<[DefaultFunc EXCEPT !.runtime = r, !.installDependency = i],
       [DefaultArg EXCEPT !.base64Code = Undef]>> :
        r \in {Undef, "Nodejs8.9", "Java8"}, i \in {Undef, "true", "false"}}
    \cup
    {<<[DefaultFunc EXCEPT !.runtime = "Nodejs8.9", !.isWaitInstall = TRUE, !.vpc = v],
       DefaultArg>> :
        v \in Vpcs \ {NoVpc}}
    \cup
    {<<[DefaultFunc EXCEPT !.runtime = r],
       [DefaultArg EXCEPT !.codeSecret = s, !.base64Code = b]>> :
        r \in Runtimes, s \in Secrets, b \in {Undef, "BASE64"}}
    \cup
    {<<[DefaultFunc EXCEPT !.runtime = p[1], !.installDependency = p[2],
                           !.isWaitInstall = w, !.triggers = t],
       [DefaultArg EXCEPT !.force = f]>> :
        p \in InstallProfiles, w \in BOOLEAN, t \in TriggerLists, f \in BOOLEAN}
    \cup
    {<<[DefaultFunc EXCEPT !.runtime = "Nodejs8.9", !.installDependency = "false",
                           !.isWaitInstall = w, !.triggers = t],
       [DefaultArg EXCEPT !.force = f, !.base64Code = Undef]>> :
        w \in BOOLEAN, t \in TriggerLists, f \in BOOLEAN}

FuncInputs ==
    {<<[DefaultFunc EXCEPT !.runtime = r, !.isWaitInstall = w],
       [DefaultArg EXCEPT !.base64Code = b, !.addFiles = a]>> :
        r \in Runtimes, w \in BOOLEAN, b \in {Undef, "BASE64"}, a \in BOOLEAN}
    \cup
    {<<f, DefaultArg>> : f \in ConfigFuncs}
    \cup
    {<<[DefaultFunc EXCEPT !.isWaitInstall = TRUE],
       [DefaultArg EXCEPT !.remoteVpc = v, !.codeSecret = s]>> :
        v \in Vpcs, s \in {NoSecret, Secret(3, TRUE)}}

\* createFunctionTriggers called by the user
TriggerInputs == {<<[DefaultFunc EXCEPT !.triggers = t], DefaultArg>> : t \in TriggerLists}

\* the operations that take a function name and options
CallInputs ==
    {<<DefaultFunc, [DefaultArg EXCEPT !.order = o, !.orderBy = b, !.startTime = s,
                                       !.endTime = e, !.requestId = r]>> :
        o \in {Undef, "desc"}, b \in {Undef, "start_time"},
        s \in {Undef, "2020-01-01 00:00:00"}, e \in {Undef, "2020-01-02 00:00:00"},
        r \in {Undef, "req-1"}}
    \cup
    {<<DefaultFunc, [DefaultArg EXCEPT !.name = n, !.newFunctionName = m,
                                       !.targetEnvId = x, !.force = f, !.params = q]>> :
        n \in {"", "big"}, m \in {"", "copy"}, x \in {Undef, "env-2"}, f \in BOOLEAN,
        q \in {Undef, "{a:1}"}}
    \cup
    {<<DefaultFunc, [DefaultArg EXCEPT !.remoteVpc = v, !.codeSecret = s]>> :
        v \in Vpcs, s \in Secrets}

LayerInputs ==
    {<<DefaultFunc, [DefaultArg EXCEPT !.runtime = r, !.runtimes = rs, !.content = c,
                                       !.staleTemp = x]>> :
        r \in Runtimes, rs \in RuntimeLists,
        c \in {"base64Content", "directory", "zipFile", "otherFile"}, x \in BOOLEAN}
    \cup
    {<<DefaultFunc, [DefaultArg EXCEPT !.runtime = r, !.searchKey = "key"]>> :
        r \in Runtimes}

FuncOps == {"updateFunctionCode", "updateFunctionConfig", "updateFunctionIncrementalCode"}
LayerOps == {"createLayer", "listLayers", "listLayerVersions",
             "deleteLayerVersion", "getLayerVersion"}
CallOps == {"listFunctions", "deleteFunction", "getFunctionDetail", "getFunctionLogs",
            "invokeFunction", "copyFunction", "deleteFunctionTrigger",
            "getFunctionDownloadUrl"}
Ops == {"createFunction", "createFunctionTriggers"} \cup FuncOps \cup LayerOps \cup CallOps

InputsOf(o) ==
    IF o = "createFunction" THEN CreateInputs
    ELSE IF o = "createFunctionTriggers" THEN TriggerInputs
    ELSE IF o \in FuncOps THEN FuncInputs
    ELSE IF o \in CallOps THEN CallInputs
    ELSE LayerInputs

\* ---------------------------------------------------------------- CloudBase.init

\* bound of the facade specification: calls of CloudBase.init and of the
\* constructor in one run
MaxInitCalls == 3

\* interface CloudBaseConfig (token and proxy are passed on unread)
Configs ==
    [secretId : {Undef, "id"}, secretKey : {Undef, "key"}, envId : {Undef, "env-1", "env-2"}]

\* private static cloudBase: CloudBase, before it is assigned
NoInstance == [id |-> 0, cloudBaseConfig |-> [secretId |-> Undef, secretKey |-> Undef,
                                              envId |-> Undef]]

\* constructor: secretId and secretKey must be a pair
ConstructorThrows(config) ==
    \/ Truthy(config.secretId) /\ ~Truthy(config.secretKey)
    \/ ~Truthy(config.secretId) /\ Truthy(config.secretKey)

\* new CloudBase(config): the id-th object made, holding its cloudBaseConfig
NewCloudBase(config, id) == [id |-> id, cloudBaseConfig |-> config]

\* faulty variant: every call constructs
initConstructsAlways(cb) == TRUE

\* if (!CloudBase.cloudBase): init constructs an instance
initConstructs(cb) == cb = NoInstance

\* CloudBase.init(config): constructs and assigns the static field when
\* it is unset (the constructor may throw, and the field stays unset), and
\* returns the field
init ==
    /\ Len(initLog) < MaxInitCalls
    /\ \E config \in Configs :
         IF initConstructs(cloudBase)
         THEN IF ConstructorThrows(config)
              THEN /\ initLog' = Append(initLog, [call |-> "init", config |-> config,
                                                  threw |-> TRUE, out |-> NoInstance])
                   /\ UNCHANGED <<cloudBase, made>>
              ELSE /\ cloudBase' = NewCloudBase(config, made + 1)
                   /\ made' = made + 1
                   /\ initLog' = Append(initLog, [call |-> "init", config |-> config,
                                                  threw |-> FALSE, out |-> cloudBase'])
         ELSE /\ initLog' = Append(initLog, [call |-> "init", config |-> config,
                                             threw |-> FALSE, out |-> cloudBase])
              /\ UNCHANGED <<cloudBase, made>>
    /\ UNCHANGED <<op, func, arg, st, calls, inflight, tasks, files>>

\* new CloudBase(config) by the user: an object of its own, the static
\* field is not touched
newCloudBase ==
    /\ Len(initLog) < MaxInitCalls
    /\ \E config \in Configs :
         IF ConstructorThrows(config)
         THEN /\ initLog' = Append(initLog, [call |-> "new", config |-> config,
                                             threw |-> TRUE, out |-> NoInstance])
              /\ UNCHANGED made
         ELSE /\ made' = made + 1
              /\ initLog' = Append(initLog, [call |-> "new", config |-> config,
                                             threw |-> FALSE,
                                             out |-> NewCloudBase(config, made + 1)])
    /\ UNCHANGED <<op, func, arg, st, calls, inflight, cloudBase, tasks, files>>

\* ---------------------------------------------------------------- concurrent createLayer

\* the directories createLayer is called on
Dirs == {"/a/layer", "/b/layer", "/b/other"}

\* const dirName = path.parse(contentPath).name
\* const dest = path.join(process.cwd(), `temp-${dirName}.zip`)
Dest(d) == IF d = "/b/other" THEN "temp-other.zip" ELSE "temp-layer.zip"

\* the temporary archives in process.cwd(): for each name the directory
\* whose content the file holds, or None for no file
NoFiles == [n \in {Dest(d) : d \in Dirs} |-> None]

\* the invocations of createLayer that are under way in the process
Tasks == {1, 2}

\* one invocation: its contentPath, the await it is at, what it read from
\* dest and what it published
NewTask(d) ==
    [contentPath |-> d, pc |-> "createLayer", base64 |-> None, published |-> None,
     outType |-> None, error |-> NoError]

\* createLayer of task p up to await zipDir: if (checkPathExist(dest))
\* delSync(dest)
layerStart(p) ==
    /\ tasks[p].pc = "createLayer"
    /\ files' = [files EXCEPT ![Dest(tasks[p].contentPath)] = None]
    /\ tasks' = [tasks EXCEPT ![p].pc = "zipDir"]
    /\ UNCHANGED <<op, func, arg, st, calls, inflight, cloudBase, made, initLog>>

\* zipDir({dirPath: contentPath, outputPath: dest}) resolves: dest holds
\* the archive of contentPath; or it rejects
layerZipDir(p) ==
    /\ tasks[p].pc = "zipDir"
    /\ \/ /\ files' = [files EXCEPT ![Dest(tasks[p].contentPath)] = tasks[p].contentPath]
          /\ tasks' = [tasks EXCEPT ![p].pc = "readFile"]
       \/ /\ tasks' = [tasks EXCEPT ![p].pc = "done", ![p].outType = "throw",
                                    ![p].error = CloudBaseError("zipDir")]
          /\ UNCHANGED files
    /\ UNCHANGED <<op, func, arg, st, calls, inflight, cloudBase, made, initLog>>

\* await fs.promises.readFile(dest) rejects when there is no file; else
\* base64 is what dest holds, delSync(dest), and PublishLayerVersion is
\* requested with it
layerReadFile(p) ==
    /\ tasks[p].pc = "readFile"
    /\ LET dest == Dest(tasks[p].contentPath) IN
       IF files[dest] = None
       THEN /\ tasks' = [tasks EXCEPT ![p].pc = "done", ![p].outType = "throw",
                                      ![p].error = CloudBaseError("readFile")]
            /\ UNCHANGED files
       ELSE /\ tasks' = [tasks EXCEPT ![p].base64 = files[dest],
                                      ![p].pc = "PublishLayerVersion_reply"]
            /\ files' = [files EXCEPT ![dest] = None]
    /\ UNCHANGED <<op, func, arg, st, calls, inflight, cloudBase, made, initLog>>

\* return this.scfService.request('PublishLayerVersion', ...): the reply,
\* or the error of the request
layerPublish(p) ==
    /\ tasks[p].pc = "PublishLayerVersion_reply"
    /\ \/ tasks' = [tasks EXCEPT ![p].pc = "done", ![p].outType = "return",
                                 ![p].published = tasks[p].base64]
       \/ \E c \in Codes :
            tasks' = [tasks EXCEPT ![p].pc = "done", ![p].outType = "throw",
                                   ![p].error = ApiError(c, p)]
    /\ UNCHANGED <<op, func, arg, st, calls, inflight, cloudBase, made, initLog, files>>

\* ---------------------------------------------------------------- specifications

Init ==
    /\ op \in Ops
    /\ \E i \in InputsOf(op) : func = i[1] /\ arg = i[2]
    /\ st = [InitSt(op) EXCEPT !.temp = arg.staleTemp]
    /\ calls = <<>>
    /\ inflight = None
    /\ cloudBase = NoInstance /\ made = 0 /\ initLog = <<>>
    /\ tasks = <<>> /\ files = NoFiles

Next ==
    \/ cfValidate \/ cfPackage \/ cfCreate \/ cfCreateOk \/ cfCreateFail
    \/ createFunctionTriggers \/ createTriggersOk \/ createTriggersFail
    \/ waitPoll \/ waitPollOk \/ waitPollFail
    \/ updateFunctionConfig \/ updateConfigOk \/ updateConfigFail
    \/ updateFunctionCode \/ updateCodeOk \/ updateCodeFail
    \/ updateFunctionIncrementalCode
    \/ createLayer \/ createLayerZipDir \/ createLayerReadFile
    \/ listLayerVersions \/ listLayers
    \/ requestOk \/ requestFail
    \/ getFunctionDetail \/ getFunctionDetailOk \/ getFunctionDetailFail
    \/ getVpcs \/ getVpcsOk \/ getVpcsFail
    \/ getSubnets \/ getSubnetsOk \/ getSubnetsFail
    \/ listFunctions \/ deleteFunction \/ getFunctionLogs \/ invokeFunction
    \/ copyFunction \/ deleteFunctionTrigger \/ getFunctionDownloadUrl
    \/ deleteLayerVersion \/ getLayerVersion

Spec == Init /\ [][Next]_vars

\* the process starts with the static field unset and no FunctionService
\* operation running
FacadeInit ==
    /\ op = "init" /\ func = DefaultFunc /\ arg = DefaultArg
    /\ st = InitSt("init") /\ calls = <<>> /\ inflight = None
    /\ cloudBase = NoInstance /\ made = 0 /\ initLog = <<>>
    /\ tasks = <<>> /\ files = NoFiles

FacadeNext == init \/ newCloudBase

FacadeSpec == FacadeInit /\ [][FacadeNext]_vars

\* two createLayer invocations on directories, started in one process; a
\* temporary archive of an earlier run may lie in the working directory
LayerInit ==
    /\ op = "createLayer" /\ func = DefaultFunc
    /\ arg = [DefaultArg EXCEPT !.content = "directory"]
    /\ st = InitSt("createLayer") /\ calls = <<>> /\ inflight = None
    /\ cloudBase = NoInstance /\ made = 0 /\ initLog = <<>>
    /\ \E d1, d2 \in Dirs : tasks = [p \in Tasks |-> NewTask(IF p = 1 THEN d1 ELSE d2)]
    /\ files \in [DOMAIN NoFiles -> {None, "/old/layer"}]

LayerNext ==
    \E p \in Tasks :
        layerStart(p) \/ layerZipDir(p) \/ layerReadFile(p) \/ layerPublish(p)

LayerSpec == LayerInit /\ [][LayerNext]_vars

\* one createFunction invocation of a Nodejs8.9 function, over every force,
\* isWaitInstall, triggers and vpc of CreateInputs
LiveInit ==
    /\ op = "createFunction"
    /\ \E i \in CreateInputs :
         /\ i[1].runtime = "Nodejs8.9" /\ i[1].envVariables = NoEnv /\ i[1].l5 = Undef
         /\ i[1].timeout = 0 /\ i[1].layers = "absent" /\ i[1].handler = Undef
         /\ i[2].codeSecret = NoSecret
         /\ func = i[1] /\ arg = i[2]
    /\ st = InitSt(op) /\ calls = <<>> /\ inflight = None
    /\ cloudBase = NoInstance /\ made = 0 /\ initLog = <<>>
    /\ tasks = <<>> /\ files = NoFiles

\* the steps of createFunction and of what it calls
LiveNext ==
    \/ cfValidate \/ cfPackage \/ cfCreate \/ cfCreateOk \/ cfCreateFail
    \/ createFunctionTriggers \/ createTriggersOk \/ createTriggersFail
    \/ waitPoll \/ waitPollOk \/ waitPollFail
    \/ getVpcs \/ getVpcsOk \/ getVpcsFail
    \/ getSubnets \/ getSubnetsOk \/ getSubnetsFail
    \/ updateFunctionConfig \/ updateConfigOk \/ updateConfigFail
    \/ updateFunctionCode \/ updateCodeOk \/ updateCodeFail

\* every await of the invocation is resumed: the packer, sleep and every
\* transport request return (with a result or an error); the status a poll
\* reads is neither CREATING nor UPDATING after MaxPolls polls that read one
\* of the two (the guard of waitPollOk)
LiveSpec == LiveInit /\ [][LiveNext]_vars /\ WF_vars(LiveNext)

\* ---------------------------------------------------------------- properties

IsCreate == op = "createFunction"

\* how many requests of this action were issued
Count(action) == Cardinality({i \in DOMAIN calls : calls[i] = action})

\* the request CreateFunction failed with the conflict code
CreateConflict == IsCreate /\ st.createErr.code = Conflict

\* the requests issued after the first (CreateFunction), in order
ConflictPathOrder ==
    \A i, j \in DOMAIN calls :
        i < j =>
            /\ calls[j] = "BatchCreateTrigger" =>
                 calls[i] \notin {"UpdateFunctionConfiguration", "UpdateFunctionCode"}
            /\ calls[j] = "UpdateFunctionConfiguration" => calls[i] # "UpdateFunctionCode"

\* C1 as stated: whenever CreateFunction succeeded and trigger creation
\* succeeded within its retries, createFunction issued one CreateFunction,
\* the triggers after it, no update request, and returns the response of
\* CreateFunction.
C1_CreatePathAsStated ==
    (IsCreate /\ Done /\ st.createOk /\ st.trigDone) =>
        /\ Count("CreateFunction") = 1 /\ calls[1] = "CreateFunction"
        /\ Count("UpdateFunctionConfiguration") = 0
        /\ Count("UpdateFunctionCode") = 0
        /\ Returned /\ st.value = ResponseValue(Response(1))

\* C1, amended: the same, provided no status poll of the readiness wait
\* fails; a failed poll is an error of the try block and is thrown (or, with
\* the conflict code and force, starts the update sequence).
C1_CreatePath ==
    (IsCreate /\ st.createOk /\ st.trigDone /\ ~st.pollFailed) =>
        /\ Count("CreateFunction") = 1 /\ calls[1] = "CreateFunction"
        /\ Count("UpdateFunctionConfiguration") = 0
        /\ Count("UpdateFunctionCode") = 0
        /\ Done => (Returned /\ st.value = ResponseValue(Response(1)))

\* the create path ran to its return after two failed trigger attempts and
\* three status polls
C1_Witness ==
    /\ IsCreate /\ Returned /\ st.createOk /\ ~st.pollFailed
    /\ st.trigDoneAt = 3 /\ st.pollCount = 3
    /\ st.value = ResponseValue(Response(1))

\* C2: when CreateFunction fails with ResourceInUse.FunctionName and force
\* is true, trigger creation, UpdateFunctionConfiguration and
\* UpdateFunctionCode are issued in that order; the invocation ends either
\* with the error of the step that failed or by returning the composite of
\* the three responses, triggerRes being null for an empty trigger list.
C2_ConflictForce ==
    (CreateConflict /\ arg.force) =>
        /\ ConflictPathOrder
        /\ Thrown => st.error \in ({st.trigLast, st.configErr, st.codeLast} \ {NoError})
        /\ Returned =>
             /\ st.value.kind = "composite"
             /\ IF func.triggers = "empty"
                THEN st.value.triggerRes = Null /\ Count("BatchCreateTrigger") = 0
                ELSE calls[2] = "BatchCreateTrigger" /\ st.value.triggerRes = Response(2)
             /\ \E i \in DOMAIN calls :
                  /\ calls[i] = "UpdateFunctionConfiguration"
                  /\ st.value.configRes = Response(i)
                  /\ \E j \in DOMAIN calls :
                       /\ i < j /\ calls[j] = "UpdateFunctionCode"
                       /\ \A k \in DOMAIN calls : calls[k] = "UpdateFunctionCode" => k <= j
                       /\ st.value.codeRes = Response(j)

\* the composite is returned after a trigger request and a retried code update
C2_Witness ==
    /\ CreateConflict /\ arg.force /\ Returned
    /\ func.triggers = "timer" /\ st.codeCalls = 2
    /\ st.value.triggerRes = Response(2) /\ st.value.configRes = Response(3)

\* C3: when CreateFunction fails with ResourceInUse.FunctionName and force
\* is false, createFunction throws a deployment error that names the
\* function and has the code and requestId of the platform error, and
\* CreateFunction is the only request it issued.
C3_ConflictNoForce ==
    (CreateConflict /\ ~arg.force) =>
        /\ Thrown
        /\ st.error.wrap = "deploy" /\ st.error.fn = func.name
        /\ st.error.code = Conflict /\ st.error.requestId = 1
        /\ calls = <<"CreateFunction">> /\ inflight = None

C3_Witness ==
    /\ CreateConflict /\ ~arg.force /\ Thrown
    /\ st.error = DeployError("big", ApiError(Conflict, 1))

\* the error thrown stems from a failed request with another code than the
\* conflict code; that request is the last one issued
OtherFailureSurfaced ==
    /\ IsCreate /\ Thrown
    /\ st.cause.text = "platform" /\ st.cause.code # Conflict

\* C4 as stated: a failed request with another code reaches the caller of
\* createFunction as the same error, unchanged, with force true or false.
C4_OtherFailureUnchangedAsStated ==
    OtherFailureSurfaced => st.error = st.cause

\* C4, amended: with force true the caller gets that same error unchanged,
\* except for a failure inside updateFunctionCode (its request or its status
\* poll), which arrives wrapped in a code-update error that keeps the code;
\* with force false the caller gets a deployment error that names the
\* function and keeps the code and the requestId.
C4_OtherFailure ==
    OtherFailureSurfaced =>
        /\ st.cause = ApiError(st.cause.code, Len(calls))
        /\ st.error.code = st.cause.code /\ st.error.text = st.cause.text
        /\ IF Count("UpdateFunctionCode") > 0
           THEN arg.force /\ st.error.wrap = "codeUpdate" /\ st.error.fn = func.name
           ELSE IF arg.force
           THEN st.error = st.cause
           ELSE /\ st.error.wrap = "deploy" /\ st.error.fn = func.name
                /\ st.error.requestId = st.cause.requestId

\* the fourth trigger attempt failed with another code, force being false
C4_Witness ==
    /\ OtherFailureSurfaced /\ ~arg.force /\ st.trigAttempts = 4
    /\ st.error = DeployError("big", ApiError("InternalError", 5))

\* C5: one invocation of createFunction issues CreateFunction at most once,
\* whatever the transport replies.
C5_CreateOnce == IsCreate => Count("CreateFunction") <= 1

\* an invocation that failed in every retry it has
C5_Witness ==
    /\ IsCreate /\ Thrown /\ st.createOk
    /\ st.trigAttempts = 4 /\ st.codeCalls = 4 /\ Count("CreateFunction") = 1

\* C6: retryCreateTrigger calls createFunctionTriggers at most 4 times; it
\* throws only after the 4th call failed, and then the error of that call;
\* once a call succeeds there is no further call and nothing is thrown.
C6_TriggerRetryBound ==
    IsCreate =>
        /\ st.trigAttempts <= 4
        /\ st.trigThrown # NoError =>
             /\ st.trigAttempts = 4 /\ ~st.trigDone
             /\ IF func.triggers = "timer"
                THEN /\ \A i \in 2..5 : calls[i] = "BatchCreateTrigger"
                     /\ st.trigThrown = ApiError(st.trigThrown.code, 5)
                ELSE st.trigThrown = CloudBaseError("badTriggerType")
        /\ st.trigDone => (st.trigAttempts = st.trigDoneAt /\ st.trigThrown = NoError)

\* attempts 1 and 2 failed, attempt 3 succeeded, the invocation returned
C6_Witness ==
    /\ IsCreate /\ Returned /\ func.triggers = "timer"
    /\ st.trigDone /\ st.trigDoneAt = 3 /\ Count("BatchCreateTrigger") = 3

\* all four attempts failed
C6_WitnessExhausted ==
    /\ IsCreate /\ Thrown /\ st.trigThrown = ApiError("InternalError", 5)

\* C7: a failed trigger-creation request whose error createFunction surfaces
\* was retried 3 times before, on the create path and on the conflict path.
C7_TriggersRetriedOnEveryPath ==
    (IsCreate /\ Thrown /\ st.cause.text = "platform" /\ st.cause = st.trigLast) =>
        st.trigCalls >= 4

\* C8: retryUpdateFunctionCode calls updateFunctionCode at most 4 times; a
\* failure of the code-update step reaches the caller only after the 4th
\* call failed, as the error of that call, and no composite is returned;
\* the composite holds the response of the first call that succeeded,
\* which is the last one made.
C8_CodeRetryBound ==
    IsCreate =>
        /\ st.codeCalls <= 4
        /\ Count("UpdateFunctionCode") = st.codeCalls
        /\ (Thrown /\ st.codeCalls > 0) =>
             /\ st.codeCalls = 4 /\ st.value = NoValue
             /\ st.error = st.codeLast /\ st.error.wrap = "codeUpdate"
             /\ st.error.code = st.cause.code
             /\ st.cause = ApiError(st.cause.code, Len(calls))
        /\ (Returned /\ st.codeCalls > 0) =>
             /\ st.value.kind = "composite"
             /\ \E j \in DOMAIN calls :
                  /\ calls[j] = "UpdateFunctionCode" /\ st.value.codeRes = Response(j)
                  /\ \A k \in DOMAIN calls : calls[k] = "UpdateFunctionCode" => k <= j

\* four code updates failed and createFunction threw the last error
C8_Witness ==
    /\ IsCreate /\ Thrown /\ st.codeCalls = 4 /\ Count("UpdateFunctionCode") = 4
    /\ st.error = CodeUpdateError("big", ApiError("InternalError", Len(calls)))

\* a runtime that is given and is not one of the three supported
RuntimeGivenInvalid(r) == r \notin {Undef, ""} /\ r \notin {"Nodejs8.9", "Php7", "Java8"}

\* a codeSecret that is given and is not 1-160 characters of [A-Za-z0-9+=/]
SecretGivenInvalid(s) == s.defined /\ s.len > 0 /\ ~(s.charsOk /\ s.len \in 1..160)

\* C9: with such a runtime or codeSecret, createFunction throws before it
\* packages anything and before it issues any request.
C9_FailFast ==
    (IsCreate /\ (RuntimeGivenInvalid(func.runtime) \/ SecretGivenInvalid(arg.codeSecret))) =>
        /\ calls = <<>> /\ inflight = None /\ st.packCount = 0
        /\ st.pc # "createFunction" => Thrown

\* an unsupported runtime is rejected for a function that would be packaged
C9_Witness ==
    /\ IsCreate /\ Thrown /\ func.runtime = "Python3.6" /\ arg.base64Code = Undef
    /\ st.error = CloudBaseError("badRuntime") /\ calls = <<>>

\* the runtime identifier(s) the operation was given include an unsupported one
UnsupportedRuntimeGiven ==
    IF op \in {"createFunction"} \cup FuncOps
    THEN RuntimeGivenInvalid(func.runtime)
    ELSE IF op = "listLayers"
    THEN RuntimeGivenInvalid(arg.runtime)
    ELSE \E item \in arg.runtimes : RuntimeGivenInvalid(item)

\* C10: each of createFunction, updateFunctionCode, updateFunctionConfig,
\* updateFunctionIncrementalCode, createLayer, listLayers and
\* listLayerVersions rejects an unsupported runtime without issuing a request.
C10_ClosedRuntimeSet ==
    UnsupportedRuntimeGiven => (calls = <<>> /\ (st.pc # op => Thrown))

\* the same for the operations other than updateFunctionConfig
C10_ClosedRuntimeSetButConfig ==
    (UnsupportedRuntimeGiven /\ op # "updateFunctionConfig") =>
        (calls = <<>> /\ (st.pc # op => Thrown))

\* the error createFunction throws stems from a check of the caller's input
ValidationFailure ==
    /\ IsCreate /\ Thrown
    /\ st.cause.text \in {"badCodeSecret", "badRuntime", "badTriggerType"}

\* C11: whenever createFunction fails because of bad caller input (a
\* trigger whose type is not timer included), it has issued no request and
\* nothing was created remotely.
C11_ValidationLocal == ValidationFailure => (calls = <<>> /\ ~st.createOk)

\* the packer was run and built nothing
PackerBuiltNothing == st.packCount > 0 /\ st.base64 = ""

\* C12: createFunction runs the packer only when no base64Code is given, and
\* then it does; when the packer builds nothing createFunction throws and no
\* request is issued.
C12_Packaging ==
    IsCreate =>
        /\ Truthy(arg.base64Code) => st.packCount = 0
        /\ (~Truthy(arg.base64Code) /\ calls # <<>>) => st.packCount > 0
        /\ PackerBuiltNothing =>
             /\ Thrown /\ st.error = CloudBaseError("noSource")
             /\ calls = <<>> /\ inflight = None

\* the packer found no source and createFunction threw
C12_Witness ==
    /\ IsCreate /\ Thrown /\ ~Truthy(arg.base64Code) /\ PackerBuiltNothing
    /\ st.error = CloudBaseError("noSource") /\ calls = <<>>

\* the invocation is inside getFunctionDetail, between the reply of
\* GetFunction and its return
InVpcLookup ==
    st.pc \in {"getVpcs", "DescribeVpcs_reply", "getSubnets", "DescribeSubnets_reply"}

\* C13: waitFunctionActive checks the status at least once, goes on exactly
\* while the status it read is CREATING or UPDATING and ends at the first
\* status that is neither: after k such statuses and one other status it
\* has made k + 1 checks, and it returns normally whatever that status is.
C13_AwaitActive ==
    st.waits > 0 =>
        /\ st.pc = "waitFunctionActive" => st.pollCount = st.transient
        /\ (st.pc = "GetFunction_reply" \/ InVpcLookup) => st.pollCount = st.transient + 1
        /\ (st.status \notin {None, CREATING, UPDATING} /\ ~InVpcLookup) => Returned
        /\ Returned =>
             /\ st.status \in Statuses \ {CREATING, UPDATING}
             /\ st.pollCount = st.transient + 1
        /\ (IsCreate /\ st.path = "create") => Count("GetFunction") = st.pollCount

\* CREATING, CREATING, Active: three checks and the create response
C13_Witness ==
    /\ IsCreate /\ Returned /\ st.waits = 1
    /\ st.transient = 2 /\ st.pollCount = 3 /\ Count("GetFunction") = 3
    /\ st.status = "Active" /\ st.value = ResponseValue(Response(1))

\* the wait ends, without an error, at the status CreateFailed
C13_WitnessFailedStatus ==
    /\ IsCreate /\ Returned /\ st.waits = 1 /\ st.pollCount = 1 /\ st.status = "CreateFailed"

\* C14: after a successful create, createFunction polls the status only if
\* the effective InstallDependency is TRUE and isWaitInstall is true; with
\* InstallDependency FALSE there is no poll even if isWaitInstall is true.
C14_WaitOnlyIfInstall ==
    (IsCreate /\ st.path = "create" /\ Count("GetFunction") > 0) =>
        (st.installDependency = "TRUE" /\ func.isWaitInstall = TRUE)

\* the part of C14 the code does keep: no poll unless isWaitInstall is true
C14_WaitOnlyIfAsked ==
    (IsCreate /\ st.path = "create" /\ Count("GetFunction") > 0) => func.isWaitInstall = TRUE

\* C15: an error that createFunction, updateFunctionCode or invokeFunction
\* throws for a failed request has the code and the requestId of the
\* platform error of that request.
C15_ErrorKeepsCodeAndRequestId ==
    (op \in {"createFunction", "updateFunctionCode", "invokeFunction"}
        /\ Thrown /\ st.cause.text = "platform") =>
        (st.error.code = st.cause.code /\ st.error.requestId = st.cause.requestId)

\* the failure of request i reached the caller as the error thrown
Surfaced(i) == Thrown /\ st.cause.text = "platform" /\ st.cause.requestId = i

\* the step of request i was run again by its retry helper
Retried(i) ==
    \E j \in DOMAIN calls :
        /\ j > i
        /\ \/ calls[i] = "BatchCreateTrigger" /\ calls[j] = "BatchCreateTrigger"
           \/ calls[i] = "UpdateFunctionCode" /\ calls[j] = "UpdateFunctionCode"
           \/ /\ calls[i] = "GetFunction" /\ calls[j] = "UpdateFunctionCode"
              /\ \E k \in DOMAIN calls : k < i /\ calls[k] = "UpdateFunctionCode"

\* createFunctionTriggers with no trigger returns null and issues nothing
EmptyTriggersNoOp ==
    /\ (op = "createFunctionTriggers" /\ func.triggers = "empty" /\ Done) =>
         (Returned /\ st.value = ResponseValue(Null) /\ calls = <<>>)
    /\ (IsCreate /\ func.triggers = "empty") =>
         (Count("BatchCreateTrigger") = 0 /\ st.trigLast = NoError)

\* C16 as stated: the failure of a request is retried or surfaced, in every
\* operation; the one silent no-op is createFunctionTriggers without triggers.
C16_NoFailureSwallowedAsStated ==
    /\ Done => \A i \in st.failed : Surfaced(i) \/ Retried(i)
    /\ EmptyTriggersNoOp

\* C16, amended: the failure of a request is retried, surfaced, or, when it
\* has the conflict code inside the try block of createFunction called with
\* force, answered by the update sequence; the failure of a VPC lookup of
\* getFunctionDetail is not surfaced: the detail is returned, or the wait
\* that asked for it goes on.
C16_NoFailureSwallowed ==
    /\ \A i \in st.failed :
         IF calls[i] \in {"DescribeVpcs", "DescribeSubnets"}
         THEN ~Surfaced(i)
         ELSE Done => (Surfaced(i) \/ Retried(i) \/ (arg.force /\ i = st.reconcileAt))
    /\ EmptyTriggersNoOp

\* two trigger attempts failed, the third succeeded, createFunction returned
C16_Witness ==
    /\ IsCreate /\ Returned /\ st.failed = {2, 3} /\ Retried(2) /\ Retried(3)
    /\ calls = <<"CreateFunction", "BatchCreateTrigger", "BatchCreateTrigger",
                 "BatchCreateTrigger">>

\* getFunctionDetail returned although DescribeSubnets failed
C16_WitnessVpcLookup ==
    /\ op = "getFunctionDetail" /\ Returned /\ st.failed = {3}
    /\ calls = <<"GetFunction", "DescribeVpcs", "DescribeSubnets">>

\* the variables the function is to have: one Key/Value entry each
DesiredVariables(f) ==
    [i \in 1..Len(f.envVariables.pairs) |->
        [Key |-> f.envVariables.pairs[i][1], Value |-> f.envVariables.pairs[i][2]]]

\* C17: every UpdateFunctionConfiguration request of updateFunctionConfig
\* carries Environment.Variables equal to the desired set of variables,
\* also when envVariables is empty or absent.
C17_FullReplaceEnvironment ==
    st.pc = "UpdateFunctionConfiguration_reply" =>
        /\ "Environment" \in DOMAIN st.params
        /\ st.params["Environment"] = Obj([Variables |-> Arr(DesiredVariables(func))])

\* the part of C17 the code does keep: a set that is not empty is sent whole
C17_FullReplaceWhenNotEmpty ==
    (st.pc = "UpdateFunctionConfiguration_reply" /\ Len(func.envVariables.pairs) > 0) =>
        /\ "Environment" \in DOMAIN st.params
        /\ st.params["Environment"] = Obj([Variables |-> Arr(DesiredVariables(func))])

\* the keys of a parameter map, or of an object in it, whose value is undefined
UndefinedKeys(m) ==
    {k \in DOMAIN m : m[k] = Undefined}
    \cup {k \in DOMAIN m : "obj" \in DOMAIN m[k]
                           /\ \E n \in DOMAIN m[k].obj : m[k].obj[n] = Undefined}

\* C18: no parameter map handed to the transport has a key whose value is
\* undefined; the one placeholder is L5Enable = null when l5 is not given.
C18_NoUndefinedParams ==
    /\ UndefinedKeys(st.params) = {}
    /\ \A k \in DOMAIN st.params : st.params[k] = JsNull => (k = "L5Enable" /\ func.l5 = Undef)

\* the same for the operations other than getFunctionLogs and listLayers
C18_NoUndefinedParamsButLogsAndLayers ==
    op \notin {"getFunctionLogs", "listLayers"} => UndefinedKeys(st.params) = {}

\* the calls of CloudBase.init so far, and those that returned
InitCalls == {i \in DOMAIN initLog : initLog[i].call = "init"}
InitReturns == {i \in InitCalls : ~initLog[i].threw}

OneAtATime ==
    calls' # calls =>
        /\ inflight = None
        /\ Len(calls') = Len(calls) + 1
        /\ inflight' = calls'[Len(calls')]

\* C20: in one createFunction invocation at most one request is in flight:
\* every request (create, trigger attempt, config update, code update
\* attempt, status poll) begins only after the one before it has completed.
C20_OneRequestInFlight == [][IsCreate => OneAtATime]_vars

\* the fourth code update is in flight after six completed requests
C20_Witness ==
    /\ IsCreate /\ inflight = "UpdateFunctionCode" /\ st.codeCalls = 4
    /\ Len(calls) = 7 /\ func.triggers = "timer"

\* the update sequence was started (the catch block of createFunction was
\* entered with the conflict code and force)
InReconcile == IsCreate /\ st.path = "reconcile"

\* the createFunctionTriggers call of the update sequence failed: its
\* request did, or it threw for a trigger that is not a timer
ReconcileTriggersFailed ==
    /\ InReconcile
    /\ \/ \E i \in st.failed : i > st.reconcileAt /\ calls[i] = "BatchCreateTrigger"
       \/ func.triggers = "other" /\ st.trigCalls > st.trigAttempts

\* C21: in the update sequence, when trigger creation fails neither
\* UpdateFunctionConfiguration nor UpdateFunctionCode is issued, and when
\* UpdateFunctionConfiguration fails UpdateFunctionCode is not issued; both
\* times createFunction throws the error of that step and returns no composite.
C21_ReconcileAborts ==
    InReconcile =>
        /\ ReconcileTriggersFailed =>
             /\ Thrown /\ st.error = st.trigLast /\ st.value = NoValue
             /\ Count("UpdateFunctionConfiguration") = 0
             /\ Count("UpdateFunctionCode") = 0
             /\ inflight = None
        /\ st.configErr # NoError =>
             /\ Thrown /\ st.error = st.configErr /\ st.value = NoValue
             /\ Count("UpdateFunctionConfiguration") = 1
             /\ Count("UpdateFunctionCode") = 0
             /\ inflight = None

\* the trigger request of the update sequence failed and createFunction threw
C21_Witness ==
    /\ InReconcile /\ ReconcileTriggersFailed /\ Thrown
    /\ calls = <<"CreateFunction", "BatchCreateTrigger">>
    /\ st.error = ApiError("InternalError", 2)

\* the configuration update failed after the triggers were created
C21_WitnessConfig ==
    /\ InReconcile /\ Thrown /\ st.configErr = ApiError("InternalError", 3)
    /\ calls = <<"CreateFunction", "BatchCreateTrigger", "UpdateFunctionConfiguration">>

\* request i was answered, and not with an error
Succeeded(i) ==
    /\ i \in DOMAIN calls /\ i \notin st.failed
    /\ i < Len(calls) \/ inflight = None

\* the platform carried out a request of this action: the state of the
\* remote function changes by the requests that succeeded, and by no other
Applied(action) == \E i \in DOMAIN calls : calls[i] = action /\ Succeeded(i)

\* the requests that create or change nothing
ReadOnlyActions == {"GetFunction", "DescribeVpcs", "DescribeSubnets"}

\* the trigger request of the update sequence succeeded
ReconcileTriggersCreated ==
    /\ InReconcile
    /\ \E i \in DOMAIN calls :
         i > st.reconcileAt /\ calls[i] = "BatchCreateTrigger" /\ Succeeded(i)

\* C22: when UpdateFunctionConfiguration fails after the trigger request of
\* the update sequence succeeded, createFunction throws; the remote function
\* has the new triggers, its configuration and code are not updated, and
\* createFunction issues no request that deletes or undoes anything.
C22_NoRollback ==
    (ReconcileTriggersCreated /\ st.configErr # NoError) =>
        /\ Thrown /\ st.error = st.configErr
        /\ Applied("BatchCreateTrigger")
        /\ ~Applied("UpdateFunctionConfiguration") /\ ~Applied("UpdateFunctionCode")
        /\ calls[Len(calls)] = "UpdateFunctionConfiguration" /\ inflight = None
        /\ \A i \in DOMAIN calls :
             calls[i] \in {"CreateFunction", "BatchCreateTrigger",
                           "UpdateFunctionConfiguration"} \cup ReadOnlyActions

\* triggers created, configuration update refused, createFunction threw
C22_Witness ==
    /\ ReconcileTriggersCreated /\ Thrown /\ st.configErr = ApiError("InternalError", 3)
    /\ Succeeded(2) /\ ~Succeeded(1) /\ ~Succeeded(3)
    /\ calls = <<"CreateFunction", "BatchCreateTrigger", "UpdateFunctionConfiguration">>
    /\ st.value = NoValue

\* a step of createFunction keeps the artifact: the packer runs once at
\* most and not after the first request, what CreateFunction carries is the
\* artifact, and what an UpdateFunctionCode request carries is that artifact
ArtifactKept ==
    /\ st'.packCount <= 1
    /\ calls # <<>> => (st'.base64 = st.base64 /\ st'.packCount = st.packCount)
    /\ (calls' # calls /\ inflight' = "CreateFunction") =>
         st'.params["Code"] = Obj([ZipFile |-> Str(st.base64)])
    /\ (calls' # calls /\ inflight' = "UpdateFunctionCode") =>
         /\ st.path = "reconcile"
         /\ st'.params["ZipFile"] = Str(st.base64)

\* C23: within one createFunction invocation the packer runs at most once;
\* in the update sequence every UpdateFunctionCode request, retries
\* included, sends the artifact the CreateFunction request sent, and the
\* source directory is not packaged again.
C23_ArtifactReuse == [][IsCreate => ArtifactKept]_vars

\* the second code update of a function that was packaged from its
\* directory is in flight with the artifact of the one packer run
C23_Witness ==
    /\ InReconcile /\ ~Truthy(arg.base64Code) /\ st.packCount = 1
    /\ inflight = "UpdateFunctionCode" /\ st.codeCalls = 2
    /\ st.base64 = "ZIP" /\ st.params["ZipFile"] = Str("ZIP")

\* a VPC lookup of getFunctionDetail failed
VpcLookupFailed ==
    /\ op = "getFunctionDetail"
    /\ \E i \in st.failed : calls[i] \in {"DescribeVpcs", "DescribeSubnets"}

\* {vpc: '', subnet: ''}
EmptyVpc == Obj([vpc |-> Str(""), subnet |-> Str("")])

\* the lookups are made only for a function with both ids
VpcLookupOnlyWithBothIds ==
    (Count("DescribeVpcs") > 0 \/ Count("DescribeSubnets") > 0) =>
        (RemoteVpc.vpcId # "" /\ RemoteVpc.subnetId # "")

\* C24: when DescribeVpcs or DescribeSubnets fails, getFunctionDetail does
\* not throw: it returns the detail, in which the VPC information
\* (VpcConfig) is replaced by the empty result; the lookups are made only
\* when VpcId and SubnetId are both non-empty.
C24_DegradeOnVpcFailure ==
    /\ VpcLookupFailed =>
         /\ Returned
         /\ st.value.kind = "detail"
         /\ st.value.data["Status"] = Str(st.status)
         /\ st.value.data["VpcConfig"] = EmptyVpc
    /\ VpcLookupOnlyWithBothIds

\* what the code does keep: it returns the detail and does not throw, the
\* lookups are made only with both ids; the empty result is put under the
\* key VPC, and VpcConfig still holds the ids of the reply
C24_DegradeUnderOtherKey ==
    /\ VpcLookupFailed =>
         /\ Returned
         /\ st.value.kind = "detail"
         /\ st.value.data["Status"] = Str(st.status)
         /\ st.value.data["VPC"] = EmptyVpc
         /\ st.value.data["VpcConfig"] = Obj([VpcId |-> Str(RemoteVpc.vpcId),
                                              SubnetId |-> Str(RemoteVpc.subnetId)])
    /\ VpcLookupOnlyWithBothIds

\* createLayer was given a directory and got as far as compressing it
LayerFromDirectory ==
    op = "createLayer" /\ arg.content = "directory" /\ ~SomeInvalid(arg.runtimes)

\* C25: on every exit path of createLayer that created temp-<dirName>.zip
\* (success, compression failure, read failure) the file is gone when
\* createLayer returns or throws.
C25_TempArchiveRemoved == (LayerFromDirectory /\ Done) => ~st.temp

\* what the code does keep: the file is gone before the request is issued
\* and when createLayer returns
C25_TempArchiveRemovedOnSuccess ==
    (LayerFromDirectory /\ (calls # <<>> \/ Returned)) => ~st.temp

\* the two invocations use the same temporary archive
SameDest == Dest(tasks[1].contentPath) = Dest(tasks[2].contentPath)

\* task p meets nothing but its own archive: the file it wrote is there,
\* unchanged, when it reads; what it read and published is the content of
\* its own directory; its read does not fail for a missing file
OwnArchiveOnly(p) ==
    /\ tasks[p].pc = "readFile" => files[Dest(tasks[p].contentPath)] = tasks[p].contentPath
    /\ tasks[p].base64 \in {None, tasks[p].contentPath}
    /\ tasks[p].published \in {None, tasks[p].contentPath}
    /\ tasks[p].error # CloudBaseError("readFile")

\* C26: two createLayer invocations interleaved in one process on
\* directories with the same base name do not delete, overwrite or read
\* each other's temporary archive; each publishes the content of its own
\* directory.
C26_NoInterference == \A p \in Tasks : OwnArchiveOnly(p)

\* what the code does keep: invocations on directories with different base
\* names do not interfere
C26_NoInterferenceOtherNames == ~SameDest => \A p \in Tasks : OwnArchiveOnly(p)

\* an update endpoint was called
UpdateEndpointCalled ==
    Count("UpdateFunctionConfiguration") > 0 \/ Count("UpdateFunctionCode") > 0

\* C27: createFunction calls UpdateFunctionConfiguration or
\* UpdateFunctionCode only if the CreateFunction request itself failed with
\* ResourceInUse.FunctionName and force is true; never after CreateFunction
\* succeeded, whatever error a trigger attempt or a status poll returns.
C27_UpdateOnlyAfterCreateConflict ==
    (IsCreate /\ UpdateEndpointCalled) =>
        (CreateConflict /\ arg.force /\ ~st.createOk /\ ~Succeeded(1))

\* what the code does keep: the update endpoints are called only with force
\* and after a request of the try block failed with the conflict code
C27_UpdateOnlyAfterConflictCode ==
    (IsCreate /\ UpdateEndpointCalled) =>
        /\ arg.force /\ st.path = "reconcile"
        /\ st.reconcileAt \in st.failed
        /\ calls[st.reconcileAt] \in {"CreateFunction", "BatchCreateTrigger", "GetFunction"}
        /\ \A i \in DOMAIN calls :
             calls[i] \in {"UpdateFunctionConfiguration", "UpdateFunctionCode"} =>
                 i > st.reconcileAt

\* requests i < j are both UpdateFunctionCode, with no other one between
ConsecutiveCodeUpdates(i, j) ==
    /\ i < j /\ calls[i] = "UpdateFunctionCode" /\ calls[j] = "UpdateFunctionCode"
    /\ \A k \in DOMAIN calls : (i < k /\ k < j) => calls[k] # "UpdateFunctionCode"

\* C28: in the update sequence UpdateFunctionCode is sent again only if the
\* UpdateFunctionCode request before it failed; once one has succeeded no
\* further one is sent, also when a status poll after it fails.
C28_CodeReissuedOnlyIfItFailed ==
    IsCreate =>
        \A i, j \in DOMAIN calls : ConsecutiveCodeUpdates(i, j) => i \in st.failed

\* what the code does keep: UpdateFunctionCode is sent again only if the
\* request before it failed or a request of the wait that followed it did
C28_CodeReissuedOnlyAfterFailure ==
    IsCreate =>
        \A i, j \in DOMAIN calls :
            ConsecutiveCodeUpdates(i, j) => (i \in st.failed \/ j - 1 \in st.failed)

\* createFunction, called with force false, threw the deployment error
DeploymentFailure == IsCreate /\ ~arg.force /\ Thrown /\ st.error.wrap = "deploy"

\* C29: when createFunction with force false throws a deployment failure,
\* the invocation has not changed the remote function set: it created no
\* function of the given name.
C29_FailureCreatesNothing == DeploymentFailure => ~Applied("CreateFunction")

\* what the code does keep: nothing was created when the failure is that of
\* the CreateFunction request
C29_CreateFailureCreatesNothing ==
    (DeploymentFailure /\ st.cause = st.createErr) =>
        (calls = <<"CreateFunction">> /\ \A i \in DOMAIN calls : ~Succeeded(i))

\* a CreateFunction request was made with Runtime Nodejs8.9 for a caller
\* who did not set installDependency
NodeByDefault ==
    /\ IsCreate /\ Count("CreateFunction") = 1 /\ st.pc = "CreateFunction_reply"
    /\ st.params["Runtime"] = Str("Nodejs8.9")
    /\ func.installDependency = Undef

\* an explicit installDependency decides, whatever the runtime
ExplicitInstallDependencyWins ==
    (IsCreate /\ st.pc = "CreateFunction_reply" /\ func.installDependency # Undef) =>
        /\ st.params["InstallDependency"] =
               Str(IF func.installDependency = "true" THEN "TRUE" ELSE "FALSE")
        /\ st.packCount > 0 =>
               ("node_modules" \in st.ignore <=> func.installDependency = "true")

\* C30: whenever the Runtime in the CreateFunction request is Nodejs8.9,
\* given by the caller or applied as the default for an omitted runtime,
\* and the caller did not set installDependency, the request carries
\* InstallDependency = TRUE and the ignore list of the packer contains
\* node_modules; an explicit installDependency always overrides the default.
C30_NodeInstallsByDefault ==
    /\ NodeByDefault =>
         /\ st.params["InstallDependency"] = Str("TRUE")
         /\ st.packCount > 0 => "node_modules" \in st.ignore
    /\ ExplicitInstallDependencyWins

\* what the code does keep: the same for a runtime Nodejs8.9 that the
\* caller gave
C30_NodeGivenInstallsByDefault ==
    /\ (NodeByDefault /\ func.runtime = "Nodejs8.9") =>
         /\ st.params["InstallDependency"] = Str("TRUE")
         /\ st.packCount > 0 => "node_modules" \in st.ignore
    /\ ExplicitInstallDependencyWins

\* the requests of a createFunction that does not wait: CreateFunction,
\* 4 trigger attempts, and in the update sequence the triggers,
\* UpdateFunctionConfiguration and 4 UpdateFunctionCode attempts
MaxRequests == 1 + (MaxRetry + 1) + 1 + 1 + (MaxRetry + 1)

\* a wait of the invocation has ended only when a poll read a status that
\* is neither CREATING nor UPDATING, or when a poll failed
WaitEndsOnlyOnFinalStatus ==
    (IsCreate /\ Done /\ st.waits > 0) =>
        (st.status \in Statuses \ {CREATING, UPDATING} \/ st.pollFailed)

\* in the wait, nothing but a reply ends the invocation: between replies it
\* issues the next poll, however many it has made
WaitKeepsPolling ==
    (IsCreate /\ st.pc = "waitFunctionActive") =>
        /\ ENABLED waitPoll
        /\ st.pollCount = st.transient /\ inflight = None

\* C31: with every await resumed, a createFunction with isWaitInstall not
\* true returns or throws, after at most MaxRequests requests; with
\* isWaitInstall true it returns or throws when the status polled is
\* eventually neither CREATING nor UPDATING; while the status read is one
\* of the two the wait goes on polling, with no bound of its own.
C31_Termination ==
    /\ <>Done
    /\ [](func.isWaitInstall # TRUE => Len(calls) <= MaxRequests)
    /\ [](WaitEndsOnlyOnFinalStatus /\ WaitKeepsPolling)

\* an invocation that does not wait has ended after MaxRequests requests
C31_Witness ==
    /\ IsCreate /\ Done /\ func.isWaitInstall # TRUE /\ Len(calls) = MaxRequests
    /\ Count("BatchCreateTrigger") = 5 /\ Count("UpdateFunctionCode") = 4

\* an invocation that waits has ended after three polls of its last wait
C31_WitnessWait ==
    /\ IsCreate /\ Returned /\ func.isWaitInstall = TRUE
    /\ st.transient = MaxPolls /\ st.pollCount = MaxPolls + 1

====
